---------------------------- MODULE Spec2Model ----------------------------
(***************************************************************************)
(* Model of the election data analysis repository.                         *)
(*                                                                         *)
(* Part I  : the three greedy forward feature selectors of                 *)
(*           Analyse_Data/data_processing.py (SpecG, FairSpecG).           *)
(* Part II : the per-year loader of Analyse_Data/create_final_data.py      *)
(*           (SpecL).                                                      *)
(* Part III: the functions without state, each applied once to arguments   *)
(*           drawn by the initial state (SpecM, SpecE, SpecCV).            *)
(* Part IV : main of Analyse_Data/main.py, from the load to the            *)
(*           evaluations (SpecP; SpecMain and SpecSeq for the selectors).  *)
(* Part V  : insert_data_to_db of the Import_Data scripts (SpecI).         *)
(* Part VI : the checks of the Verify_Data scripts (SpecV).                *)
(*                                                                         *)
(* Floating point scores are modelled on an ordinal scale: a               *)
(* cross-validated R2 is a value of ScoreVals, -inf is NegInf, below all   *)
(* of them, or NaNScore (a fold whose R2 is undefined, or whose scoring     *)
(* failed and got error_score = nan), which no comparison finds greater or  *)
(* smaller.  The scikit-learn fits are the environment: the score of a      *)
(* column list is an arbitrary value, fixed the first time the list is     *)
(* scored (round_scores keeps the results of the current round, the only   *)
(* ones that can be asked for again; it is emptied when a feature is       *)
(* appended, which changes every candidate column list).                   *)
(***************************************************************************)
EXTENDS Integers, Sequences, FiniteSets, TLC

VARIABLES
    \* ---- greedy selectors (data_processing.py) ----
    family,              \* which selector runs: "knn", "linear" or "poly"
    features,            \* argument `features` (the caller's list)
    selected_features,
    remaining_features,
    best_r2,
    best_model,          \* None or Some(model artifact)
    best_poly_features,  \* poly only: None or Some(expansion step)
    best_degree,         \* poly only: None or Some(degree)
    best_new_feature,    \* None or Some(feature name)
    fi,                  \* position of the for loop in remaining_features
    gpc,                 \* control point of the selector
    result,              \* the returned tuple (None until the return)
    \* history of the run, read by the properties only
    round_scores,        \* column list -> result of its scoring, this round
    r2_before_round,     \* best_r2 when the current round began
    best_after,          \* best_after[k+1] = best_r2 once k features are in
    outer_iters,         \* iterations of the while loop begun so far
    fits,                \* candidate subsets scored so far
    \* ---- loader (create_final_data.py, get_combined_data) ----
    years,               \* argument `years`
    yi,                  \* position of the for loop in years
    lpc,                 \* control point of get_combined_data
    election_df,         \* the six frames of the current iteration
    population_df,       \*   (None while not assigned)
    gdp_df,
    unemployment_df,
    education_df,
    urbanization_df,
    combined_df,         \* sequence of Observation rows
    loaded,              \* the returned frame (None until the return)
    \* history of the run, read by the properties only
    election_rows,       \* rows the election query returned, this iteration
    population_rows,     \* rows the population query returned, this iteration
    defects,             \* source rows drawn so far that are not complete
    log,                 \* one entry per finished iteration
    \* ---- one call of a function without state ----
    call,                \* None or Some(the function's name and arguments)
    returned,            \* None or Some(what the call returned)
    \* ---- main (main.py), after a selector returned ----
    main_outcome,        \* None, then Some("ok") or Some("error")
    \* ---- main (main.py), the pipeline from the load to the evaluations ----
    mpc,                 \* control point of main
    main_df,             \* df of load_and_normalize_data (None until loaded)
    main_X,              \* X, y as load_and_normalize_data returns them
    main_y,
    main_X_train,        \* the four results of split_data
    main_X_test,
    main_y_train,
    main_y_test,
    received,            \* history: what each search and evaluation was given
    \* ---- an import script (Import_Data/import_*.py), insert_data_to_db ----
    ipc,                 \* control point of insert_data_to_db
    data,                \* argument `data`: the rows to insert
    db,                  \* the target table as committed: None or Some(rows)
    tx,                  \* the target table as the open transaction sees it
    ii,                  \* position of the for loop in data
    stdout,              \* what the run printed
    \* history of the runs, read by the properties only
    db_at_start,         \* the committed table when the run began
    failed,              \* None, or Some(statement that raised) in this run
    runs                 \* runs of the script begun so far

gvars == <<family, features, selected_features, remaining_features, best_r2,
           best_model, best_poly_features, best_degree, best_new_feature,
           fi, gpc, result, round_scores, r2_before_round, best_after,
           outer_iters, fits>>

lvars == <<years, yi, lpc, election_df, population_df, gdp_df,
           unemployment_df, education_df, urbanization_df, combined_df,
           loaded, election_rows, population_rows, defects, log>>

fvars == <<call, returned, main_outcome>>

pvars == <<mpc, main_df, main_X, main_y, main_X_train, main_X_test,
           main_y_train, main_y_test, received>>

dvars == <<ipc, data, db, tx, ii, stdout, db_at_start, failed, runs>>

vars == <<gvars, lvars, fvars, pvars, dvars>>

-----------------------------------------------------------------------------
(* Bounds of the model *)

MaxFeatures == 3            \* longest candidate list F
MaxScore == 2               \* finite scores are 1..MaxScore

FeatureNames == {"", "gdp", "edu"}
ScoreVals == 1..MaxScore
k_range == <<7, 8>>         \* main.py passes list(range(7, 80))
degrees == <<1, 2>>         \* main.py passes list(range(1, 6))

FeatureLists == UNION {[1..n -> FeatureNames] : n \in 0..MaxFeatures}

-----------------------------------------------------------------------------
(* Python values *)

None == <<>>
Some(x) == <<x>>
NegInf == 0 - 1
NaNScore == 0 - 2           \* encoding only: see Gt

\* The values a cross-validated score takes
CVScores == ScoreVals \cup {NaNScore}

\* a > b on floats: false when either side is NaN
Gt(a, b) == a # NaNScore /\ b # NaNScore /\ a > b

\* Truth value of `if best_new_feature:` : None and the empty string are falsy
Truthy(opt) == opt # None /\ opt[1] # ""

\* The test `current_r2 > best_r2`
ImprovesAlways(current_r2, best) == TRUE
ImprovesOrTies(current_r2, best) == Gt(current_r2, best) \/ current_r2 = best
ImprovesLess(current_r2, best) == Gt(best, current_r2)
Improves(current_r2, best) == Gt(current_r2, best)

\* list.index(x): 0-based position of the first occurrence
IndexOf(list, x) == (CHOOSE i \in 1..Len(list) :
                        list[i] = x /\ \A j \in 1..(i-1) : list[j] # x) - 1

\* list.remove(x): the list without the first occurrence of x
RemoveNothing(list, x) == list
RemoveFirst(list, x) ==
    LET i == IndexOf(list, x) + 1
    IN  SubSeq(list, 1, i-1) \o SubSeq(list, i+1, Len(list))

\* [features.index(f) for f in current_features]
Columns(feats, current_features) ==
    [i \in 1..Len(current_features) |-> IndexOf(feats, current_features[i])]

Range(s) == {s[i] : i \in DOMAIN s}
SeqMax(s) == CHOOSE m \in Range(s) : \A x \in Range(s) : x <= m

-----------------------------------------------------------------------------
(* Cross-validated fits *)

\* GridSearchCV(...).fit over a parameter list: mean_test_score[i] is the
\* 5-fold mean R2 of params[i]; best_index_ is the first entry of rank 1.
\* The ranking puts the NaN means last (one rank for all when every mean is
\* NaN), and best_score_ is the mean at best_index_.
GridSearchCVFirst(params, mean_test_score) ==
    [best_param |-> params[1], best_score |-> mean_test_score[1]]
GridSearchCV(params, mean_test_score) ==
    LET RanksAbove(a, b) == Gt(a, b) \/ (a # NaNScore /\ b = NaNScore)
        bi == CHOOSE i \in 1..Len(params) :
                 /\ \A j \in 1..Len(params) :
                       ~RanksAbove(mean_test_score[j], mean_test_score[i])
                 /\ \A j \in 1..(i-1) :
                       RanksAbove(mean_test_score[i], mean_test_score[j])
    IN  [best_param |-> params[bi], best_score |-> mean_test_score[bi]]

\* perform_knn_cv: (best_k, best_r2, best_estimator_)
perform_knn_cv(cols, mean_test_score) ==
    LET gs == GridSearchCV(k_range, mean_test_score)
    IN  [param |-> gs.best_param,
         r2    |-> gs.best_score,
         model |-> [kind |-> "knn", cols |-> cols, param |-> gs.best_param,
                    fitted_on |-> "X_train"]]

\* perform_linear_regression_cv: (mean_r2, lr).  cross_val_score fits clones
\* of lr on the folds; lr itself is fitted once, by lr.fit(X_train, y_train)
perform_linear_regression_cv(cols, mean_r2) ==
    [param |-> 0,
     r2    |-> mean_r2,
     model |-> [kind |-> "linear", cols |-> cols, param |-> 0,
                fitted_on |-> "X_train"]]

\* The Pipeline(poly, linear) grid search of grid_search_feature_selection_poly
poly_grid_search(cols, mean_test_score) ==
    LET gs == GridSearchCV(degrees, mean_test_score)
    IN  [param |-> gs.best_param,
         r2    |-> gs.best_score,
         model |-> [kind |-> "poly", cols |-> cols, param |-> gs.best_param,
                    fitted_on |-> "X_train"]]

\* named_steps['poly'] of a fitted pipeline
PolyStep(model) == [degree |-> model.param, n_features_in |-> Len(model.cols)]

Grids(params) == [1..Len(params) -> CVScores]

\* The scoring results the environment may produce for `cols` in this round:
\* the recorded one when the same columns were scored already, any otherwise.
Outcomes(cols, fresh) ==
    IF cols \in DOMAIN round_scores THEN {round_scores[cols]} ELSE fresh

Record(cols, r) ==
    IF cols \in DOMAIN round_scores THEN round_scores
    ELSE [c \in DOMAIN round_scores \cup {cols} |->
             IF c = cols THEN r ELSE round_scores[c]]

-----------------------------------------------------------------------------
(* Greedy selectors *)

IdleD ==
    /\ ipc = "idle" /\ data = <<>> /\ db = None /\ tx = None /\ ii = 0
    /\ stdout = <<>> /\ db_at_start = None /\ failed = None /\ runs = 0

IdleP ==
    /\ mpc = "idle" /\ main_df = None /\ main_X = None /\ main_y = None
    /\ main_X_train = None /\ main_X_test = None
    /\ main_y_train = None /\ main_y_test = None
    /\ received = <<>>

IdleF == call = None /\ returned = None /\ main_outcome = None /\ IdleP

IdleL ==
    /\ years = <<>> /\ yi = 0 /\ lpc = "idle"
    /\ election_df = None /\ population_df = None /\ gdp_df = None
    /\ unemployment_df = None /\ education_df = None /\ urbanization_df = None
    /\ combined_df = <<>> /\ loaded = None
    /\ election_rows = None /\ population_rows = None
    /\ defects = 0 /\ log = <<>>

InitG ==
    /\ IdleD
    /\ IdleL
    /\ IdleF
    /\ family \in {"knn", "linear", "poly"}
    /\ features \in FeatureLists
    /\ selected_features = <<>>
    /\ remaining_features = features          \* features.copy()
    /\ best_r2 = NegInf
    /\ best_model = None
    /\ best_poly_features = None
    /\ best_degree = None
    /\ best_new_feature = None
    /\ fi = 0
    /\ gpc = "while"
    /\ result = None
    /\ round_scores = <<>>
    /\ r2_before_round = NegInf
    /\ best_after = <<NegInf>>
    /\ outer_iters = 0
    /\ fits = 0

\* `while remaining_features:` true; `best_new_feature = None`; the for loop
\* starts
WhileEnter ==
    /\ gpc = "while"
    /\ remaining_features # <<>>
    /\ best_new_feature' = None
    /\ fi' = 1
    /\ gpc' = "for"
    /\ r2_before_round' = best_r2
    /\ outer_iters' = outer_iters + 1
    /\ UNCHANGED <<family, features, selected_features, remaining_features,
                   best_r2, best_model, best_poly_features, best_degree,
                   result, round_scores, best_after, fits>>
    /\ UNCHANGED <<lvars, fvars, pvars, dvars>>

\* `while remaining_features:` false
WhileExit ==
    /\ gpc = "while"
    /\ remaining_features = <<>>
    /\ gpc' = "return"
    /\ UNCHANGED <<family, features, selected_features, remaining_features,
                   best_r2, best_model, best_poly_features, best_degree,
                   best_new_feature, fi, result, round_scores,
                   r2_before_round, best_after, outer_iters, fits>>
    /\ UNCHANGED <<lvars, fvars, pvars, dvars>>

\* One pass of the for loop body, given the scoring result r of the candidate
ScoreStep(cols, r) ==
    /\ round_scores' = Record(cols, r)
    /\ fits' = fits + 1
    /\ fi' = fi + 1
    /\ IF Improves(r.r2, best_r2)
       THEN /\ best_r2' = r.r2
            /\ best_new_feature' = Some(remaining_features[fi])
            /\ best_model' = Some(r.model)
            /\ IF family = "poly"
               THEN /\ best_poly_features' = Some(PolyStep(r.model))
                    /\ best_degree' = Some(r.param)
               ELSE UNCHANGED <<best_poly_features, best_degree>>
       ELSE UNCHANGED <<best_r2, best_new_feature, best_model,
                        best_poly_features, best_degree>>
    /\ UNCHANGED <<family, features, selected_features, remaining_features,
                   gpc, result, r2_before_round, best_after, outer_iters>>
    /\ UNCHANGED <<lvars, fvars, pvars, dvars>>

CurrentColumns ==
    Columns(features, Append(selected_features, remaining_features[fi]))

KnnScore ==
    /\ family = "knn" /\ gpc = "for" /\ fi <= Len(remaining_features)
    /\ \E r \in Outcomes(CurrentColumns,
                 {perform_knn_cv(CurrentColumns, g) : g \in Grids(k_range)}) :
          ScoreStep(CurrentColumns, r)

LinearScore ==
    /\ family = "linear" /\ gpc = "for" /\ fi <= Len(remaining_features)
    /\ \E r \in Outcomes(CurrentColumns,
                 {perform_linear_regression_cv(CurrentColumns, s) :
                     s \in CVScores}) :
          ScoreStep(CurrentColumns, r)

PolyScore ==
    /\ family = "poly" /\ gpc = "for" /\ fi <= Len(remaining_features)
    /\ \E r \in Outcomes(CurrentColumns,
                 {poly_grid_search(CurrentColumns, g) : g \in Grids(degrees)}) :
          ScoreStep(CurrentColumns, r)

\* End of the for loop: `if best_new_feature:` append and remove (the remove
\* acts on remaining_features, the copy the selector made of features)
AppendBestOnCallerList ==
    /\ gpc = "for" /\ fi > Len(remaining_features)
    /\ Truthy(best_new_feature)
    /\ selected_features' = Append(selected_features, best_new_feature[1])
    /\ remaining_features' = RemoveFirst(remaining_features, best_new_feature[1])
    /\ features' = remaining_features'
    /\ best_after' = Append(best_after, best_r2)
    /\ round_scores' = <<>>
    /\ gpc' = "while"
    /\ UNCHANGED <<family, best_r2, best_model, best_poly_features,
                   best_degree, best_new_feature, fi, result,
                   r2_before_round, outer_iters, fits>>
    /\ UNCHANGED <<lvars, fvars, pvars, dvars>>
AppendBest ==
    /\ gpc = "for" /\ fi > Len(remaining_features)
    /\ Truthy(best_new_feature)
    /\ selected_features' = Append(selected_features, best_new_feature[1])
    /\ remaining_features' = RemoveFirst(remaining_features, best_new_feature[1])
    /\ best_after' = Append(best_after, best_r2)
    /\ round_scores' = <<>>
    /\ gpc' = "while"
    /\ UNCHANGED <<family, features, best_r2, best_model, best_poly_features,
                   best_degree, best_new_feature, fi, result,
                   r2_before_round, outer_iters, fits>>
    /\ UNCHANGED <<lvars, fvars, pvars, dvars>>

\* End of the for loop: `else: break`
Break ==
    /\ gpc = "for" /\ fi > Len(remaining_features)
    /\ ~Truthy(best_new_feature)
    /\ gpc' = "return"
    /\ UNCHANGED <<family, features, selected_features, remaining_features,
                   best_r2, best_model, best_poly_features, best_degree,
                   best_new_feature, fi, result, round_scores,
                   r2_before_round, best_after, outer_iters, fits>>
    /\ UNCHANGED <<lvars, fvars, pvars, dvars>>

ReturnFrame ==
    /\ gpc' = "done"
    /\ UNCHANGED <<family, features, selected_features, remaining_features,
                   best_r2, best_model, best_poly_features, best_degree,
                   best_new_feature, fi, round_scores, r2_before_round,
                   best_after, outer_iters, fits>>
    /\ UNCHANGED <<lvars, fvars, pvars, dvars>>

KnnReturn ==
    /\ family = "knn" /\ gpc = "return"
    /\ result' = Some(<<selected_features, best_model>>)
    /\ ReturnFrame

LinearReturn ==
    /\ family = "linear" /\ gpc = "return"
    /\ result' = Some(<<selected_features, best_r2, best_model>>)
    /\ ReturnFrame

PolyReturn ==
    /\ family = "poly" /\ gpc = "return"
    /\ result' = Some(<<selected_features, best_r2, best_model,
                        best_poly_features, best_degree>>)
    /\ ReturnFrame

NextG ==
    \/ WhileEnter
    \/ WhileExit
    \/ KnnScore
    \/ LinearScore
    \/ PolyScore
    \/ AppendBest
    \/ Break
    \/ KnnReturn
    \/ LinearReturn
    \/ PolyReturn

SpecG == InitG /\ [][NextG]_vars

\* The selectors are sequential code: a run that can take a step takes it.
FairSpecG == InitG /\ [][NextG]_vars /\ WF_vars(NextG)

\* main, after a selector returned (selected_features, best_model, ...):
\* it takes the selected columns of X_train and X_test, has the returned
\* model (for poly, first the returned expansion step) predict on them, and
\* plots column 0 of the selected columns resp. selected_features[0].
\*   - a returned model of None has no predict / transform  (AttributeError)
\*   - a model fitted on n columns rejects a matrix of another width
\*     (ValueError)
\*   - an empty selection has no column 0 and no element 0     (IndexError)
main_uses(selected, model) ==
    IF model = None THEN "error"
    ELSE IF Len(model[1].cols) # Len(selected) THEN "error"
    ELSE IF selected = <<>> THEN "error"
    ELSE "ok"

MainUsesResult ==
    /\ gpc = "done"
    /\ main_outcome = None
    /\ main_outcome' = Some(main_uses(selected_features, best_model))
    /\ UNCHANGED <<call, returned, gvars, lvars, pvars, dvars>>

NextMain ==
    \/ NextG
    \/ MainUsesResult

\* A selector, then main's use of what it returned
SpecMain == InitG /\ [][NextMain]_vars

\* main, between two selectors: after the use of the first one's result went
\* through, it calls the next one with the same features (and the same
\* X_train, y_train); the new call starts from its own fresh locals.
MainNextSelector ==
    /\ gpc = "done" /\ family \in {"knn", "linear"}
    /\ main_uses(selected_features, best_model) = "ok"
    /\ family' = IF family = "knn" THEN "linear" ELSE "poly"
    /\ selected_features' = <<>>
    /\ remaining_features' = features          \* features.copy()
    /\ best_r2' = NegInf
    /\ best_model' = None
    /\ best_poly_features' = None
    /\ best_degree' = None
    /\ best_new_feature' = None
    /\ fi' = 0
    /\ gpc' = "while"
    /\ round_scores' = <<>>
    /\ r2_before_round' = NegInf
    /\ best_after' = <<NegInf>>
    /\ outer_iters' = 0
    /\ fits' = 0
    /\ result' = None
    /\ UNCHANGED <<features, lvars, fvars, pvars, dvars>>

NextSeq ==
    \/ NextG
    \/ MainNextSelector

\* main calls greedy_feature_selection_knn first
InitSeq == InitG /\ family = "knn"

\* The selectors as main runs them, one after another
SpecSeq == InitSeq /\ [][NextSeq]_vars

-----------------------------------------------------------------------------
(* Part II.  Floating point columns                                         *)
(*                                                                          *)
(* A column value is the exact ratio n/d kept as [n, d]: d > 0 is a finite  *)
(* number, 0/0 is NaN (also what a SQL NULL reads as) and 1/0 is +inf.      *)
(* The sources hold no negative numbers.                                    *)

F(n, d) == [n |-> n, d |-> d]
NaN == F(0, 0)
Inf == F(1, 0)
IsNaN(x) == x.n = 0 /\ x.d = 0
IsInf(x) == x.n # 0 /\ x.d = 0
IsFinite(x) == x.d > 0

\* a / b on pandas columns: no exception, a/0 is inf and 0/0 is NaN
FDiv(a, b) ==
    IF IsNaN(a) \/ IsNaN(b) THEN NaN
    ELSE IF IsInf(b) THEN (IF IsInf(a) THEN NaN ELSE F(0, 1))
    ELSE IF b.n = 0 THEN (IF a.n = 0 THEN NaN ELSE Inf)
    ELSE IF IsInf(a) THEN Inf
    ELSE F(a.n * b.d, a.d * b.n)

\* a * k for a positive integer k
FMul(a, k) == IF IsFinite(a) THEN F(a.n * k, a.d) ELSE a

\* p/q rounded to the nearest integer, halves to the even neighbour
RoundHalfEven(p, q) ==
    LET fl == p \div q
        r  == p % q
    IN  IF 2 * r < q THEN fl
        ELSE IF 2 * r > q THEN fl + 1
        ELSE IF fl % 2 = 0 THEN fl ELSE fl + 1

\* Series.round(digits), scale = 10^digits: the result is a multiple of
\* 1/scale; NaN and inf stay as they are
FRoundDown(a, scale) ==
    IF IsFinite(a) THEN F((a.n * scale) \div a.d, scale) ELSE a
FRound(a, scale) ==
    IF IsFinite(a) THEN F(RoundHalfEven(a.n * scale, a.d), scale) ELSE a

-----------------------------------------------------------------------------
(* The database, as the queries see it                                      *)
(*                                                                          *)
(* The tables are the environment of get_combined_data.  A query returns,   *)
(* for each state, one of the contents listed for its table: the first is   *)
(* a complete row, the others are a missing row (None) or a row with a      *)
(* NULL, a zero or an out-of-range value.  At most MaxDefects of the rows   *)
(* drawn in a run are not the complete one.                                 *)

MaxYears == 2               \* longest list of years
MaxDefects == 2             \* rows of a run that are missing or defective

States == {"AL", "AK"}
YearPool == {2004, 2020}
YearLists == UNION {[1..n -> YearPool] : n \in 0..MaxYears}

\* election_results(state, year, republican, total)
ElectionContents(st) ==
    << (IF st = "AL" THEN Some([republican |-> F(55, 1), total |-> F(100, 1)])
                      ELSE Some([republican |-> F(1, 1), total |-> F(3, 1)])),
       None,
       Some([republican |-> NaN, total |-> F(2, 1)]),
       Some([republican |-> F(3, 1), total |-> F(2, 1)]) >>

\* population_data(name, year, total_population, population_18_24, ...)
PopulationContents(st) ==
    LET row(total, p65) ==
            Some([total_population |-> total,
                  population_18_24 |-> F(1, 1), population_25_44 |-> F(1, 1),
                  population_45_64 |-> F(1, 1), population_65_plus |-> p65])
    IN  << row(IF st = "AL" THEN F(4, 1) ELSE F(3, 1), F(1, 1)),
           None,
           row(NaN, F(1, 1)),
           row(F(0, 1), F(1, 1)),
           row(F(4, 1), NaN) >>

\* gdp_data(state, year, total_gpd)
GdpContents(st) ==
    << Some([total_gpd |-> F(2, 1)]),
       None,
       Some([total_gpd |-> NaN]),
       Some([total_gpd |-> F(0, 1)]) >>

\* unemployment_data(state, year, unemployment)
UnemploymentContents(st) ==
    << Some([unemployment |-> F(5, 100)]),
       None,
       Some([unemployment |-> NaN]) >>

\* education_data(state, total_college_finishers_2000/2008/2017)
EducationContents(st) ==
    LET row(a, b, c) ==
            Some([total_college_finishers_2000 |-> a,
                  total_college_finishers_2008 |-> b,
                  total_college_finishers_2017 |-> c])
    IN  << (IF st = "AL" THEN row(F(20, 100), F(25, 100), F(30, 100))
                          ELSE row(F(2046, 10000), F(2555, 10000),
                                   F(3004, 10000))),
           None,
           row(NaN, F(25, 100), F(30, 100)),
           row(F(20, 100), NaN, F(30, 100)),
           row(F(20, 100), F(25, 100), NaN) >>

\* urbanization_data(state, urban_2000, urban_2010)
UrbanizationContents(st) ==
    LET row(a, b) == Some([urban_2000 |-> a, urban_2010 |-> b])
    IN  << (IF st = "AL" THEN row(F(5, 10), F(6, 10))
                          ELSE row(F(5555, 10000), F(6004, 10000))),
           None,
           row(NaN, F(6, 10)),
           row(F(5, 10), NaN) >>

\* Which content each state's row has in one query result: pick[st] = 1 is
\* the complete row.
Cost(pick) == Cardinality({st \in States : pick[st] # 1})
Picks(n) == {pick \in [States -> 1..n] : defects + Cost(pick) <= MaxDefects}

\* execute_query: the rows of a year-keyed table `WHERE year = y`
YearRows(contents, key, y, pick) ==
    {[f \in {key, "year"} |-> IF f = key THEN st ELSE y] @@ contents[st][pick[st]][1] :
        st \in {s \in States : contents[s][pick[s]] # None}}

\* execute_query: the rows of a table without a year column
StateRows(contents, pick) ==
    {[f \in {"state"} |-> st] @@ contents[st][pick[st]][1] :
        st \in {s \in States : contents[s][pick[s]] # None}}

-----------------------------------------------------------------------------
(* The per-source extracts *)

\* get_election_data, after the query
get_election_data_inverted(df) ==
    {[state |-> r.state, year |-> r.year,
      republican_percent |-> FMul(FDiv(r.total, r.republican), 100)] : r \in df}
get_election_data(df) ==
    {[state |-> r.state, year |-> r.year,
      republican_percent |-> FMul(FDiv(r.republican, r.total), 100)] : r \in df}

\* `population_year = year - 1 if year == 2020 else year`
population_year(year) == IF year = 2020 THEN year - 1 ELSE year

\* `if year == 2020: df['year'] = 2020`
RelabelNever(year, stored) == stored
Relabel(year, stored) == IF year = 2020 THEN 2020 ELSE stored

\* get_population_data, after the query
get_population_data(df, year) ==
    {[state |-> r.name, year |-> Relabel(year, r.year),
      total_population |-> r.total_population,
      age_18_24_percent |-> FMul(FDiv(r.population_18_24, r.total_population), 100),
      age_25_44_percent |-> FMul(FDiv(r.population_25_44, r.total_population), 100),
      age_45_64_percent |-> FMul(FDiv(r.population_45_64, r.total_population), 100),
      age_65_plus_percent |-> FMul(FDiv(r.population_65_plus, r.total_population), 100)] :
        r \in df}

\* get_education_data, after the query
get_education_data_before(df, year) ==
    {[state |-> r.state,
      college_finishers |->
          IF year < 2005 THEN FMul(r.total_college_finishers_2000, 100)
          ELSE IF year < 2013 THEN FMul(r.total_college_finishers_2008, 100)
          ELSE FMul(r.total_college_finishers_2017, 100),
      year |-> year] : r \in df}
get_education_data(df, year) ==
    {[state |-> r.state,
      college_finishers |->
          IF year <= 2005 THEN FMul(r.total_college_finishers_2000, 100)
          ELSE IF year <= 2013 THEN FMul(r.total_college_finishers_2008, 100)
          ELSE FMul(r.total_college_finishers_2017, 100),
      year |-> year] : r \in df}

\* get_urbanization_data, after the query
get_urbanization_data_before(df, year) ==
    {[state |-> r.state,
      urban_population |->
          IF year < 2005 THEN FMul(r.urban_2000, 100)
          ELSE FMul(r.urban_2010, 100),
      year |-> year] : r \in df}
get_urbanization_data(df, year) ==
    {[state |-> r.state,
      urban_population |->
          IF year <= 2005 THEN FMul(r.urban_2000, 100)
          ELSE FMul(r.urban_2010, 100),
      year |-> year] : r \in df}

-----------------------------------------------------------------------------
(* merge_data *)

\* `on=['state', 'year'], how='inner'`: the rows of a joined tuple agree on
\* both keys
SameYearOnly(t) == \A i \in 2..6 : t[i].year = t[1].year
SameKey(t) == \A i \in 2..6 : t[i].state = t[1].state /\ t[i].year = t[1].year

\* The five inner joins on (state, year), and gdp_per_capita
InnerJoins(e_df, p_df, g_df, u_df, ed_df, ur_df) ==
    {[state |-> e.state, year |-> e.year,
      republican_percent |-> e.republican_percent,
      total_population |-> p.total_population,
      age_18_24_percent |-> p.age_18_24_percent,
      age_25_44_percent |-> p.age_25_44_percent,
      age_45_64_percent |-> p.age_45_64_percent,
      age_65_plus_percent |-> p.age_65_plus_percent,
      total_gpd |-> g.total_gpd,
      unemployment_rate |-> u.unemployment,
      college_finishers |-> ed.college_finishers,
      urban_population |-> ur.urban_population,
      gdp_per_capita |-> FDiv(FMul(g.total_gpd, 1000000), p.total_population)] :
        <<e, p, g, u, ed, ur>> \in
            {t \in e_df \X p_df \X g_df \X u_df \X ed_df \X ur_df : SameKey(t)}}

NumericColumns ==
    {"republican_percent", "total_population", "age_18_24_percent",
     "age_25_44_percent", "age_45_64_percent", "age_65_plus_percent",
     "total_gpd", "unemployment_rate", "college_finishers",
     "urban_population", "gdp_per_capita"}

\* DataFrame.dropna(): the rows without a NaN in any column
KeepAll(rows) == rows
dropna(rows) == {r \in rows : \A c \in NumericColumns : ~IsNaN(r[c])}

\* The roundings and the final column selection
FinalRowAllColumns(r) ==
    [c \in DOMAIN r |->
        CASE c = "gdp_per_capita" -> FRound(r[c], 1)
          [] c = "republican_percent" -> FRound(r[c], 100)
          [] c \in {"college_finishers", "urban_population",
                    "age_18_24_percent", "age_25_44_percent",
                    "age_45_64_percent", "age_65_plus_percent"} ->
                FRound(r[c], 10)
          [] OTHER -> r[c]]
FinalRow(r) ==
    [state |-> r.state, year |-> r.year,
     gdp_per_capita |-> FRound(r.gdp_per_capita, 1),
     unemployment_rate |-> r.unemployment_rate,
     college_finishers |-> FRound(r.college_finishers, 10),
     urban_population |-> FRound(r.urban_population, 10),
     age_18_24_percent |-> FRound(r.age_18_24_percent, 10),
     age_25_44_percent |-> FRound(r.age_25_44_percent, 10),
     age_45_64_percent |-> FRound(r.age_45_64_percent, 10),
     age_65_plus_percent |-> FRound(r.age_65_plus_percent, 10),
     republican_percent |-> FRound(r.republican_percent, 100)]

\* A frame's rows in a fixed order (a query without ORDER BY returns its rows
\* in an order the code does not depend on)
RECURSIVE RowSeq(_)
RowSeq(rows) ==
    IF rows = {} THEN <<>>
    ELSE LET st == CHOOSE s \in States :
                      /\ \E r \in rows : r.state = s
                      /\ (s = "AL" \/ \A r \in rows : r.state # "AL")
             r0 == CHOOSE r \in rows : r.state = st
         IN  <<r0>> \o RowSeq(rows \ {r0})

merge_data(e_df, p_df, g_df, u_df, ed_df, ur_df) ==
    RowSeq({FinalRow(r) : r \in dropna(InnerJoins(e_df, p_df, g_df, u_df, ed_df, ur_df))})

-----------------------------------------------------------------------------
(* get_combined_data *)

IdleG ==
    /\ family = "none" /\ features = <<>>
    /\ selected_features = <<>> /\ remaining_features = <<>>
    /\ best_r2 = NegInf /\ best_model = None /\ best_poly_features = None
    /\ best_degree = None /\ best_new_feature = None /\ fi = 0
    /\ gpc = "idle" /\ result = None /\ round_scores = <<>>
    /\ r2_before_round = NegInf /\ best_after = <<NegInf>>
    /\ outer_iters = 0 /\ fits = 0

\* `combined_df = pd.DataFrame()` and the first test of `for year in years`
InitL ==
    /\ IdleD
    /\ IdleG
    /\ IdleF
    /\ years \in YearLists
    /\ yi = 1
    /\ lpc = IF years = <<>> THEN "return" ELSE "election"
    /\ election_df = None /\ population_df = None /\ gdp_df = None
    /\ unemployment_df = None /\ education_df = None /\ urbanization_df = None
    /\ combined_df = <<>>
    /\ loaded = None
    /\ election_rows = None /\ population_rows = None
    /\ defects = 0
    /\ log = <<>>

year == years[yi]

\* The iteration is over: the six frames are dead (each is assigned again
\* before it is read) and the for loop takes the next year or ends
NextIteration(outcome) ==
    /\ log' = Append(log, [year |-> year, outcome |-> outcome])
    /\ yi' = yi + 1
    /\ lpc' = IF yi + 1 <= Len(years) THEN "election" ELSE "return"
    /\ election_df' = None /\ population_df' = None /\ gdp_df' = None
    /\ unemployment_df' = None /\ education_df' = None
    /\ urbanization_df' = None
    /\ election_rows' = None /\ population_rows' = None

GetElectionData ==
    /\ lpc = "election"
    /\ \E pick \in Picks(Len(ElectionContents("AL"))) :
          LET df == YearRows([s \in States |-> ElectionContents(s)], "state", year, pick)
          IN  /\ election_rows' = Some(df)
              /\ election_df' = Some(get_election_data(df))
              /\ defects' = defects + Cost(pick)
    /\ lpc' = "population"
    /\ UNCHANGED <<years, yi, population_df, gdp_df, unemployment_df,
                   education_df, urbanization_df, combined_df, loaded,
                   population_rows, log>>
    /\ UNCHANGED <<gvars, fvars, pvars, dvars>>

GetPopulationData ==
    /\ lpc = "population"
    /\ \E pick \in Picks(Len(PopulationContents("AL"))) :
          LET df == YearRows([s \in States |-> PopulationContents(s)], "name",
                             population_year(year), pick)
          IN  /\ population_rows' = Some(df)
              /\ population_df' = Some(get_population_data(df, year))
              /\ defects' = defects + Cost(pick)
    /\ lpc' = "gdp"
    /\ UNCHANGED <<years, yi, election_df, gdp_df, unemployment_df,
                   education_df, urbanization_df, combined_df, loaded,
                   election_rows, log>>
    /\ UNCHANGED <<gvars, fvars, pvars, dvars>>

GetGdpData ==
    /\ lpc = "gdp"
    /\ \E pick \in Picks(Len(GdpContents("AL"))) :
          /\ gdp_df' = Some(YearRows([s \in States |-> GdpContents(s)], "state", year, pick))
          /\ defects' = defects + Cost(pick)
    /\ lpc' = "unemployment"
    /\ UNCHANGED <<years, yi, election_df, population_df, unemployment_df,
                   education_df, urbanization_df, combined_df, loaded,
                   election_rows, population_rows, log>>
    /\ UNCHANGED <<gvars, fvars, pvars, dvars>>

GetUnemploymentData ==
    /\ lpc = "unemployment"
    /\ \E pick \in Picks(Len(UnemploymentContents("AL"))) :
          /\ unemployment_df' = Some(YearRows([s \in States |-> UnemploymentContents(s)], "state",
                                              year, pick))
          /\ defects' = defects + Cost(pick)
    /\ lpc' = "education"
    /\ UNCHANGED <<years, yi, election_df, population_df, gdp_df,
                   education_df, urbanization_df, combined_df, loaded,
                   election_rows, population_rows, log>>
    /\ UNCHANGED <<gvars, fvars, pvars, dvars>>

GetEducationData ==
    /\ lpc = "education"
    /\ \E pick \in Picks(Len(EducationContents("AL"))) :
          /\ education_df' = Some(get_education_data(
                                 StateRows([s \in States |-> EducationContents(s)], pick), year))
          /\ defects' = defects + Cost(pick)
    /\ lpc' = "urbanization"
    /\ UNCHANGED <<years, yi, election_df, population_df, gdp_df,
                   unemployment_df, urbanization_df, combined_df, loaded,
                   election_rows, population_rows, log>>
    /\ UNCHANGED <<gvars, fvars, pvars, dvars>>

GetUrbanizationData ==
    /\ lpc = "urbanization"
    /\ \E pick \in Picks(Len(UrbanizationContents("AL"))) :
          /\ urbanization_df' = Some(get_urbanization_data(
                                    StateRows([s \in States |-> UrbanizationContents(s)], pick), year))
          /\ defects' = defects + Cost(pick)
    /\ lpc' = "merge"
    /\ UNCHANGED <<years, yi, election_df, population_df, gdp_df,
                   unemployment_df, education_df, combined_df, loaded,
                   election_rows, population_rows, log>>
    /\ UNCHANGED <<gvars, fvars, pvars, dvars>>

\* `if not election_df.empty and ... and not urbanization_df.empty`
AllNonEmpty ==
    /\ election_df[1] # {} /\ population_df[1] # {} /\ gdp_df[1] # {}
    /\ unemployment_df[1] # {} /\ education_df[1] # {}
    /\ urbanization_df[1] # {}

\* The year's frame, from the six frames of the iteration
year_df ==
    merge_data(election_df[1], population_df[1], gdp_df[1],
               unemployment_df[1], education_df[1], urbanization_df[1])

\* All six frames hold rows: merge_data, then pd.concat(ignore_index=True)
MergeYear ==
    /\ lpc = "merge"
    /\ AllNonEmpty
    /\ combined_df' = combined_df \o year_df
    /\ NextIteration("merged")
    /\ UNCHANGED <<years, loaded, defects>>
    /\ UNCHANGED <<gvars, fvars, pvars, dvars>>

\* Some frame is empty: the if is false, nothing is merged
SkipYear ==
    /\ lpc = "merge"
    /\ ~AllNonEmpty
    /\ NextIteration("skipped")
    /\ UNCHANGED <<years, combined_df, loaded, defects>>
    /\ UNCHANGED <<gvars, fvars, pvars, dvars>>

TrySteps == {"election", "population", "gdp", "unemployment", "education",
             "urbanization", "merge"}

\* What the loop does with an exception of the try block:
\* `except Exception as e: print(...)`, then the next year
ExceptBreak ==
    /\ log' = Append(log, [year |-> year, outcome |-> "error"])
    /\ lpc' = "return"
    /\ UNCHANGED <<yi, election_df, population_df, gdp_df, unemployment_df,
                   education_df, urbanization_df, election_rows,
                   population_rows>>
ExceptPropagate ==
    /\ log' = Append(log, [year |-> year, outcome |-> "error"])
    /\ lpc' = "raised"
    /\ UNCHANGED <<yi, election_df, population_df, gdp_df, unemployment_df,
                   education_df, urbanization_df, election_rows,
                   population_rows>>
ExceptClause == NextIteration("error")

\* A statement of the try block raises (a query fails, a table is missing,
\* a processing step fails) before combined_df is assigned
Raise ==
    /\ lpc \in TrySteps
    /\ ExceptClause
    /\ UNCHANGED <<years, combined_df, loaded, defects>>
    /\ UNCHANGED <<gvars, fvars, pvars, dvars>>

\* `return combined_df`
ReturnCombined ==
    /\ lpc = "return"
    /\ loaded' = Some(combined_df)
    /\ lpc' = "done"
    /\ UNCHANGED <<years, yi, election_df, population_df, gdp_df,
                   unemployment_df, education_df, urbanization_df,
                   combined_df, election_rows, population_rows, defects,
                   log>>
    /\ UNCHANGED <<gvars, fvars, pvars, dvars>>

NextL ==
    \/ GetElectionData
    \/ GetPopulationData
    \/ GetGdpData
    \/ GetUnemploymentData
    \/ GetEducationData
    \/ GetUrbanizationData
    \/ MergeYear
    \/ SkipYear
    \/ Raise
    \/ ReturnCombined

SpecL == InitL /\ [][NextL]_vars

-----------------------------------------------------------------------------
(* Part III.  One year of the loader as a function of the query results     *)
(*                                                                          *)
(* The body of the try block of get_combined_data, applied to the rows the  *)
(* six queries return for one requested year.  The initial state draws the  *)
(* year and the rows; at most MaxDefects rows are not the complete one.     *)

RequestYears == {2004, 2005, 2006, 2013, 2014, 2020}
TableNames == {"election_results", "population_data", "gdp_data",
               "unemployment_data", "education_data", "urbanization_data"}

TableContents(t) ==
    [st \in States |->
        CASE t = "election_results"  -> ElectionContents(st)
          [] t = "population_data"   -> PopulationContents(st)
          [] t = "gdp_data"          -> GdpContents(st)
          [] t = "unemployment_data" -> UnemploymentContents(st)
          [] t = "education_data"    -> EducationContents(st)
          [] t = "urbanization_data" -> UrbanizationContents(st)]

\* The rows (table, state) that are not the complete one, and which content
\* each has instead
DefectChoices ==
    UNION {{d \in [D -> 2..5] :
               \A sl \in D : d[sl] <= Len(TableContents(sl[1])[sl[2]])} :
           D \in {D \in SUBSET (TableNames \X States) :
                     Cardinality(D) <= MaxDefects}}

PickOf(d, t) ==
    [st \in States |-> IF <<t, st>> \in DOMAIN d THEN d[<<t, st>>] ELSE 1]

\* What the six queries of the iteration of year y return
QueryResults(y, d) ==
    [year |-> y,
     election_results |->
        YearRows(TableContents("election_results"), "state", y,
                 PickOf(d, "election_results")),
     population_data |->
        YearRows(TableContents("population_data"), "name",
                 population_year(y), PickOf(d, "population_data")),
     gdp_data |->
        YearRows(TableContents("gdp_data"), "state", y, PickOf(d, "gdp_data")),
     unemployment_data |->
        YearRows(TableContents("unemployment_data"), "state", y,
                 PickOf(d, "unemployment_data")),
     education_data |->
        StateRows(TableContents("education_data"), PickOf(d, "education_data")),
     urbanization_data |->
        StateRows(TableContents("urbanization_data"),
                  PickOf(d, "urbanization_data"))]

\* Lines 172-181 for one year: the six extracts, the emptiness test and
\* merge_data; the rows the iteration adds to combined_df
year_frame(q) ==
    LET e  == get_election_data(q.election_results)
        p  == get_population_data(q.population_data, q.year)
        g  == q.gdp_data
        u  == q.unemployment_data
        ed == get_education_data(q.education_data, q.year)
        ur == get_urbanization_data(q.urbanization_data, q.year)
    IN  IF e # {} /\ p # {} /\ g # {} /\ u # {} /\ ed # {} /\ ur # {}
        THEN merge_data(e, p, g, u, ed, ur)
        ELSE <<>>

InitM ==
    /\ IdleD
    /\ IdleG
    /\ IdleL
    /\ IdleP
    /\ \E y \in RequestYears, d \in DefectChoices :
          call = Some([fn |-> "year_frame", q |-> QueryResults(y, d)])
    /\ returned = None
    /\ main_outcome = None

ApplyYearFrame ==
    /\ call # None /\ call[1].fn = "year_frame"
    /\ returned = None
    /\ returned' = Some(year_frame(call[1].q))
    /\ UNCHANGED <<call, main_outcome, gvars, lvars, pvars, dvars>>

NextM == ApplyYearFrame

SpecM == InitM /\ [][NextM]_vars

-----------------------------------------------------------------------------
(* Part III.  evaluate_metrics                                              *)
(*                                                                          *)
(* A matrix is the sequence of its rows, a row is one value of DataVals (a  *)
(* single column), a response vector a sequence of DataVals.  A fitted      *)
(* model is what predict does: a function from rows to predictions.         *)

MaxRows == 2                \* most rows of a train or test partition
DataVals == {0, 1}

Models == [DataVals -> DataVals]
Partitions ==
    UNION {[X : [1..n -> DataVals], y : [1..n -> DataVals]] : n \in 1..MaxRows}

RECURSIVE SumSeq(_)
SumSeq(s) == IF s = <<>> THEN 0 ELSE Head(s) + SumSeq(Tail(s))

\* model.predict(X)
predict(model, X) == [i \in DOMAIN X |-> model[X[i]]]

\* sklearn.metrics.r2_score: 1 - SS_res / SS_tot; with SS_tot = 0 it is 1.0
\* for a perfect prediction and 0.0 otherwise; undefined (nan) for less
\* than two samples.  T is n * SS_tot.
r2_score(y_true, y_pred) ==
    LET n == Len(y_true)
        R == SumSeq([i \in DOMAIN y_true |-> (y_true[i] - y_pred[i]) * (y_true[i] - y_pred[i])])
        T == n * SumSeq([i \in DOMAIN y_true |-> y_true[i] * y_true[i]])
                - SumSeq(y_true) * SumSeq(y_true)
    IN  IF n < 2 THEN NaN
        ELSE IF T # 0 THEN F(T - n * R, T)
        ELSE IF R # 0 THEN F(0, 1) ELSE F(1, 1)

\* sklearn.metrics.mean_squared_error
mean_squared_error(y_true, y_pred) ==
    F(SumSeq([i \in DOMAIN y_true |-> (y_true[i] - y_pred[i]) * (y_true[i] - y_pred[i])]),
      Len(y_true))

\* evaluate_metrics: (metrics, y_pred_test)
evaluate_metrics_train_twice(model, X_train, X_test, y_train, y_test) ==
    LET y_pred_train == predict(model, X_train)
        y_pred_test  == predict(model, X_test)
    IN  [metrics |-> [R2_train |-> r2_score(y_train, y_pred_train),
                      R2_test  |-> r2_score(y_train, y_pred_train),
                      MSE_test |-> mean_squared_error(y_test, y_pred_test)],
         y_pred_test |-> y_pred_test]
evaluate_metrics(model, X_train, X_test, y_train, y_test) ==
    LET y_pred_train == predict(model, X_train)
        y_pred_test  == predict(model, X_test)
    IN  [metrics |-> [R2_train |-> r2_score(y_train, y_pred_train),
                      R2_test  |-> r2_score(y_test, y_pred_test),
                      MSE_test |-> mean_squared_error(y_test, y_pred_test)],
         y_pred_test |-> y_pred_test]

InitE ==
    /\ IdleD
    /\ IdleG
    /\ IdleL
    /\ IdleP
    /\ \E m \in Models, train \in Partitions, test \in Partitions :
          call = Some([fn |-> "evaluate_metrics", model |-> m,
                       X_train |-> train.X, y_train |-> train.y,
                       X_test |-> test.X, y_test |-> test.y])
    /\ returned = None
    /\ main_outcome = None

\* The function assigns only its locals: the arguments stay as they are
ApplyEvaluateMetrics ==
    /\ call # None /\ call[1].fn = "evaluate_metrics"
    /\ returned = None
    /\ returned' = Some(evaluate_metrics(call[1].model, call[1].X_train,
                                         call[1].X_test, call[1].y_train,
                                         call[1].y_test))
    /\ UNCHANGED <<call, main_outcome, gvars, lvars, pvars, dvars>>

NextE == ApplyEvaluateMetrics

SpecE == InitE /\ [][NextE]_vars

-----------------------------------------------------------------------------
(* Part III.  perform_knn_cv and perform_linear_regression_cv               *)
(*                                                                          *)
(* X_train is the list of its columns.  What the library's cross validation *)
(* measures is drawn: the mean test score of each k for the grid search,    *)
(* the score of each fold for cross_val_score (an exact ratio, or nan).     *)

cv == 5
CVColumns == {<<1>>, <<1, 2>>}
FoldScores == [1..cv -> {F(v, 1) : v \in ScoreVals} \cup {NaN}]

\* scores.mean(): nan as soon as one score is nan
scores_max(scores) ==
    IF \E i \in DOMAIN scores : IsNaN(scores[i]) THEN NaN
    ELSE F(SeqMax([i \in DOMAIN scores |-> scores[i].n]), 1)
scores_mean(scores) ==
    IF \E i \in DOMAIN scores : IsNaN(scores[i]) THEN NaN
    ELSE F(SumSeq([i \in DOMAIN scores |-> scores[i].n]), Len(scores))

InitCV ==
    /\ IdleD
    /\ IdleG
    /\ IdleL
    /\ IdleP
    /\ \/ \E cols \in CVColumns, g \in Grids(k_range) :
             call = Some([fn |-> "perform_knn_cv", X_train |-> cols,
                          k_range |-> k_range, mean_test_score |-> g])
       \/ \E cols \in CVColumns, scores \in FoldScores :
             call = Some([fn |-> "perform_linear_regression_cv",
                          X_train |-> cols, scores |-> scores])
    /\ returned = None
    /\ main_outcome = None

ApplyKnnCv ==
    /\ call # None /\ call[1].fn = "perform_knn_cv"
    /\ returned = None
    /\ returned' = Some(perform_knn_cv(call[1].X_train, call[1].mean_test_score))
    /\ UNCHANGED <<call, main_outcome, gvars, lvars, pvars, dvars>>

ApplyLinearCv ==
    /\ call # None /\ call[1].fn = "perform_linear_regression_cv"
    /\ returned = None
    /\ returned' = Some(perform_linear_regression_cv(call[1].X_train,
                                                     scores_mean(call[1].scores)))
    /\ UNCHANGED <<call, main_outcome, gvars, lvars, pvars, dvars>>

NextCV == ApplyKnnCv \/ ApplyLinearCv

SpecCV == InitCV /\ [][NextCV]_vars

-----------------------------------------------------------------------------
(* Part IV.  main: load, normalize, split, then search and evaluate         *)
(*                                                                          *)
(* df is the sequence of the Observation rows, reduced to one feature       *)
(* column x and the response y.  A cell of X or y keeps, next to its value, *)
(* the position `row` its Observation has in df: arrays carry no such      *)
(* label, it is there to tell rows with equal values apart.                 *)

MaxObs == 3                 \* most Observation rows of df

Frames == UNION {[1..n -> [x : DataVals, y : DataVals]] : n \in 0..MaxObs}

\* StandardScaler().fit_transform on one column: (v - mean) / std with the
\* population std, and a std of 0 replaced by 1.  With n values of sum S
\* and sum of squares Q that is (n*v - S) / sqrt(n*Q - S*S); the cell keeps
\* the numerator and the radicand (radicand 0: the value is 0).
fit_transform(column) ==
    LET n == Len(column)
        S == SumSeq(column)
        Q == SumSeq([i \in DOMAIN column |-> column[i] * column[i]])
    IN  [i \in DOMAIN column |->
            [row |-> i, num |-> n * column[i] - S, radicand |-> n * Q - S * S]]

\* train_test_split(X, y, test_size=0.2, random_state=42): n_test is
\* ceil(0.2 * n), the rest is the training set; the rows are shuffled by a
\* permutation (the one the seed gives, any one here), its first n_test
\* places index the test rows and the next n_train the training rows, of X
\* and of y alike.
train_test_split_arrays_apart(arr_X, arr_y, permutation) ==
    LET n == Len(arr_X)
        n_test == (n + 4) \div 5
        n_train == n - n_test
        ind_test == [i \in 1..n_test |-> permutation[i]]
        ind_train == [i \in 1..n_train |-> permutation[n_test + i]]
    IN  [X_train |-> [i \in 1..n_train |-> arr_X[ind_train[i]]],
         X_test  |-> [i \in 1..n_test |-> arr_X[ind_test[i]]],
         y_train |-> [i \in 1..n_train |-> arr_y[ind_train[n_train + 1 - i]]],
         y_test  |-> [i \in 1..n_test |-> arr_y[ind_test[i]]]]
train_test_split(arr_X, arr_y, permutation) ==
    LET n == Len(arr_X)
        n_test == (n + 4) \div 5
        n_train == n - n_test
        ind_test == [i \in 1..n_test |-> permutation[i]]
        ind_train == [i \in 1..n_train |-> permutation[n_test + i]]
    IN  [X_train |-> [i \in 1..n_train |-> arr_X[ind_train[i]]],
         X_test  |-> [i \in 1..n_test |-> arr_X[ind_test[i]]],
         y_train |-> [i \in 1..n_train |-> arr_y[ind_train[i]]],
         y_test  |-> [i \in 1..n_test |-> arr_y[ind_test[i]]]]

Searches == <<"knn", "linear", "poly">>
EvaluationOf(search) ==
    IF search = "knn" THEN "evaluate_knn"
    ELSE IF search = "linear" THEN "evaluate_linear" ELSE "evaluate_poly"
AfterEvaluationOf(search) ==
    IF search = "knn" THEN "linear" ELSE IF search = "linear" THEN "poly" ELSE "done"

InitP ==
    /\ IdleD
    /\ IdleG
    /\ IdleL
    /\ call = None /\ returned = None /\ main_outcome = None
    /\ mpc = "load"
    /\ main_df = None /\ main_X = None /\ main_y = None
    /\ main_X_train = None /\ main_X_test = None
    /\ main_y_train = None /\ main_y_test = None
    /\ received = <<>>

\* df = create_final_data(years)
Load ==
    /\ mpc = "load"
    /\ \E frame \in Frames : main_df' = Some(frame)
    /\ mpc' = "normalize"
    /\ UNCHANGED <<main_X, main_y, main_X_train, main_X_test, main_y_train,
                   main_y_test, received>>
    /\ UNCHANGED <<gvars, lvars, fvars, dvars>>

\* The rest of load_and_normalize_data; a frame without rows makes the
\* scaler (or already the column selection) raise
Normalize ==
    /\ mpc = "normalize"
    /\ IF main_df[1] = <<>>
       THEN /\ mpc' = "raised"
            /\ UNCHANGED <<main_X, main_y>>
       ELSE /\ main_X' = Some(fit_transform([i \in DOMAIN main_df[1] |-> main_df[1][i].x]))
            /\ main_y' = Some(fit_transform([i \in DOMAIN main_df[1] |-> main_df[1][i].y]))
            /\ mpc' = "split"
    /\ UNCHANGED <<main_df, main_X_train, main_X_test, main_y_train,
                   main_y_test, received>>
    /\ UNCHANGED <<gvars, lvars, fvars, dvars>>

\* X_train, X_test, y_train, y_test = split_data(X, y); an empty training
\* set makes train_test_split raise
Split ==
    /\ mpc = "split"
    /\ IF Len(main_X[1]) - (Len(main_X[1]) + 4) \div 5 = 0
       THEN /\ mpc' = "raised"
            /\ UNCHANGED <<main_X_train, main_X_test, main_y_train, main_y_test>>
       ELSE \E permutation \in Permutations(1..Len(main_X[1])) :
               LET parts == train_test_split(main_X[1], main_y[1], permutation)
               IN  /\ main_X_train' = Some(parts.X_train)
                   /\ main_X_test' = Some(parts.X_test)
                   /\ main_y_train' = Some(parts.y_train)
                   /\ main_y_test' = Some(parts.y_test)
                   /\ mpc' = "knn"
    /\ UNCHANGED <<main_df, main_X, main_y, received>>
    /\ UNCHANGED <<gvars, lvars, fvars, dvars>>

\* A selector call of main: greedy_feature_selection_knn(X_train, y_train,
\* ...) and the two others.  It returns or raises.
Search ==
    /\ \E i \in DOMAIN Searches : mpc = Searches[i]
    /\ received' = Append(received,
                          [component |-> "search", family |-> mpc,
                           X_train |-> main_X_train, y_train |-> main_y_train,
                           X_test |-> None, y_test |-> None])
    /\ \E raises \in BOOLEAN :
          mpc' = IF raises THEN "raised" ELSE EvaluationOf(mpc)
    /\ UNCHANGED <<main_df, main_X, main_y, main_X_train, main_X_test,
                   main_y_train, main_y_test>>
    /\ UNCHANGED <<gvars, lvars, fvars, dvars>>

\* evaluate_metrics(best_model, X_selected_train, X_selected_test, y_train,
\* y_test) for the selector that returned.  It returns or raises.
Evaluate ==
    /\ \E i \in DOMAIN Searches :
          /\ mpc = EvaluationOf(Searches[i])
          /\ received' = Append(received,
                                [component |-> "evaluate", family |-> Searches[i],
                                 X_train |-> main_X_train, y_train |-> main_y_train,
                                 X_test |-> main_X_test, y_test |-> main_y_test])
          /\ \E raises \in BOOLEAN :
                mpc' = IF raises THEN "raised" ELSE AfterEvaluationOf(Searches[i])
    /\ UNCHANGED <<main_df, main_X, main_y, main_X_train, main_X_test,
                   main_y_train, main_y_test>>
    /\ UNCHANGED <<gvars, lvars, fvars, dvars>>

NextP ==
    \/ Load
    \/ Normalize
    \/ Split
    \/ Search
    \/ Evaluate

SpecP == InitP /\ [][NextP]_vars

-----------------------------------------------------------------------------
(* Part V.  An import script: insert_data_to_db                             *)
(*                                                                          *)
(* The seven scripts share one shape: inside `with psycopg2.connect(...)`   *)
(* they drop the target table, create it, insert the rows of `data` one by  *)
(* one, commit and print the table; `except Exception` prints the error.    *)
(* Every statement sent to the database may fail.  A row of `data` is one   *)
(* value; a table row is that value with the id the SERIAL column gives.    *)

MaxData == 2                \* most rows of `data`
MaxRuns == 2                \* runs of the script, one after another

DataRows == UNION {[1..n -> {"a", "b"}] : n \in 0..MaxData}

\* The target table before the first run: absent, empty, or from other data
InitialTables ==
    {None, Some(<<>>), Some(<<[id |-> 1, v |-> "z"]>>),
     Some(<<[id |-> 1, v |-> "a"], [id |-> 2, v |-> "b"]>>)}

\* Leaving `with psycopg2.connect(...) as conn` by an exception rolls the
\* open transaction back (DDL included): the committed table stays
rollback_keeps_work(committed, working) == working
rollback(committed, working) == committed

InitI ==
    /\ IdleG
    /\ IdleL
    /\ IdleF
    /\ ipc = "connect"
    /\ data \in DataRows
    /\ db \in InitialTables
    /\ tx = None
    /\ ii = 0
    /\ stdout = <<>>
    /\ db_at_start = db
    /\ failed = None
    /\ runs = 1

\* A statement raised: the with block rolls back, `except Exception as
\* error: print(f"Error: {error}")`, and the function returns
RaiseAt(statement) ==
    /\ db' = rollback(db, tx)
    /\ tx' = None
    /\ stdout' = Append(stdout, "Error")
    /\ failed' = Some(statement)
    /\ ipc' = "done"
    /\ UNCHANGED <<data, ii, db_at_start, runs>>

\* psycopg2.connect(**db_params)
Connect ==
    /\ ipc = "connect"
    /\ \/ RaiseAt("connect")
       \/ /\ tx' = db
          /\ ipc' = "drop"
          /\ UNCHANGED <<data, db, ii, stdout, db_at_start, failed, runs>>
    /\ UNCHANGED <<gvars, lvars, fvars, pvars>>

\* cur.execute("DROP TABLE IF EXISTS ...")
DropTable ==
    /\ ipc = "drop"
    /\ \/ RaiseAt("drop")
       \/ /\ tx' = None
          /\ ipc' = "create"
          /\ UNCHANGED <<data, db, ii, stdout, db_at_start, failed, runs>>
    /\ UNCHANGED <<gvars, lvars, fvars, pvars>>

\* cur.execute("CREATE TABLE ...") and the start of the for loop
CreateTable ==
    /\ ipc = "create"
    /\ \/ RaiseAt("create")
       \/ /\ tx' = Some(<<>>)
          /\ ii' = 1
          /\ ipc' = "insert"
          /\ UNCHANGED <<data, db, stdout, db_at_start, failed, runs>>
    /\ UNCHANGED <<gvars, lvars, fvars, pvars>>

\* One pass of `for _, row in data.iterrows(): cur.execute("INSERT ...")`
InsertRow ==
    /\ ipc = "insert" /\ ii <= Len(data)
    /\ \/ RaiseAt("insert")
       \/ /\ tx' = Some(Append(tx[1], [id |-> Len(tx[1]) + 1, v |-> data[ii]]))
          /\ ii' = ii + 1
          /\ UNCHANGED <<ipc, data, db, stdout, db_at_start, failed, runs>>
    /\ UNCHANGED <<gvars, lvars, fvars, pvars>>

\* conn.commit()
Commit ==
    /\ ipc = "insert" /\ ii > Len(data)
    /\ \/ RaiseAt("commit")
       \/ /\ db' = tx
          /\ ipc' = "verify"
          /\ UNCHANGED <<data, tx, ii, stdout, db_at_start, failed, runs>>
    /\ UNCHANGED <<gvars, lvars, fvars, pvars>>

\* verify_insertion(cur): SELECT * and one printed line per row
VerifyInsertion ==
    /\ ipc = "verify"
    /\ \/ RaiseAt("verify")
       \/ /\ stdout' = stdout \o tx[1]
          /\ tx' = None
          /\ ipc' = "done"
          /\ UNCHANGED <<data, db, ii, db_at_start, failed, runs>>
    /\ UNCHANGED <<gvars, lvars, fvars, pvars>>

\* The script is run again on the same data
RunAgain ==
    /\ ipc = "done" /\ runs < MaxRuns
    /\ ipc' = "connect"
    /\ tx' = None
    /\ ii' = 0
    /\ stdout' = <<>>
    /\ db_at_start' = db
    /\ failed' = None
    /\ runs' = runs + 1
    /\ UNCHANGED <<data, db>>
    /\ UNCHANGED <<gvars, lvars, fvars, pvars>>

NextI ==
    \/ Connect
    \/ DropTable
    \/ CreateTable
    \/ InsertRow
    \/ Commit
    \/ VerifyInsertion
    \/ RunAgain

SpecI == InitI /\ [][NextI]_vars

-----------------------------------------------------------------------------
(* Part VI.  The verification scripts (Verify_Data)                         *)
(*                                                                          *)
(* A fetched row is the tuple of its columns, the id first.  For           *)
(* verify_coverage.py, which looks for NULLs, a column holds Some(value) or *)
(* None, as cursor.fetchall() gives a value or None (the id, the primary    *)
(* key, is never None).  For verify_election_data.py, which adds votes up,  *)
(* a column holds its value.                                                *)

MaxFetched == 3             \* most rows a query returns

\* verify_coverage.py lists the 50 states; two of them stand for the list
VALID_STATES == <<"Alabama", "Alaska">>

StateCells == {Some("Alabama"), Some("Alaska"), Some("Guam")}
YearCells == {Some(2000), Some(2002), Some(2003), None}

\* Rows (id, state, year) of a table with a year column
StateYearRows ==
    UNION {{[i \in 1..n |-> <<Some(i), c[i][1], c[i][2]>>] :
               c \in [1..n -> StateCells \X YearCells]} : n \in 0..MaxFetched}

SetMin(S) == CHOOSE m \in S : \A x \in S : m <= x
SetMax(S) == CHOOSE m \in S : \A x \in S : x <= m

\* check_state_year_coverage.  An entry of coverage_info is the text
\* "state, min-max" or "state, min-max (missing years: [...])", kept as its
\* parts.  A year of None in the set of a valid state makes min, max or
\* range raise a TypeError.
check_state_year_coverage(rows) ==
    LET state_years ==
            [state \in Range(VALID_STATES) |->
                {rows[i][3] : i \in {j \in DOMAIN rows : rows[j][2] = Some(state)}}]
        entry(state) ==
            LET yrs == {c[1] : c \in state_years[state]}
                min_year == SetMin(yrs)
                max_year == SetMax(yrs)
            IN  [state |-> state, min_year |-> min_year, max_year |-> max_year,
                 missing_years |-> (min_year..max_year) \ yrs]
        HasYears(state) == state_years[state] # {}
        HasNone(state) == state_years[state] = {}
        covered == SelectSeq(VALID_STATES, HasYears)
    IN  IF \E state \in Range(VALID_STATES) : None \in state_years[state]
        THEN [raised |-> "TypeError"]
        ELSE [raised |-> "",
              coverage_info |-> [i \in DOMAIN covered |-> entry(covered[i])],
              missing_states |-> SelectSeq(VALID_STATES, HasNone)]

\* Rows (id, state, year, republican, democratic, others, total) of
\* election_results, as verify_election_data.py fetches them
ElectionRows ==
    UNION {{[i \in 1..n |-> <<i, Some("Alabama"), Some(2000),
                              c[i][1], c[i][2], 0, c[i][3]>>] :
               c \in [1..n -> {0, 4000, 4001, 4002} \X {0, 6000} \X {0, 10000}]} :
           n \in 0..2}

\* tolerance = 0.0001, as the ratio it stands for
tolerance == [n |-> 1, d |-> 10000]

Abs(x) == IF x < 0 THEN 0 - x ELSE x
Max2(a, b) == IF a > b THEN a ELSE b

\* roughly_equal: abs(a - b) <= tolerance * max(a, b)
roughly_equal(a, b, tol) == Abs(a - b) * tol.d <= tol.n * Max2(a, b)

\* In validate_election_data the name `id` is not a variable of the
\* function: it is Python's builtin function id.  The number stands for
\* that function object; no row has it as id.
BuiltinId == 0 - 1

\* validate_election_data: one entry (id, row[1], row[2], text) per row whose
\* votes do not add up; the text holds votes_sum and row[6]
RECURSIVE validate_election_data(_, _)
validate_election_data(rows, tol) ==
    IF rows = <<>> THEN <<>>
    ELSE LET row == Head(rows)
             votes_sum == row[4] + row[5] + row[6]
             rest == validate_election_data(Tail(rows), tol)
         IN  IF ~roughly_equal(votes_sum, row[7], tol)
             THEN <<<<BuiltinId, row[2], row[3],
                      [votes_sum |-> votes_sum, total |-> row[7]]>>>> \o rest
             ELSE rest

\* check_for_null_values of verify_coverage.py: an entry (row[0], row[1],
\* row[2], text) per row with a None column; row[2] of a row of two columns
\* raises an IndexError
RECURSIVE check_for_null_values(_)
check_for_null_values(rows) ==
    IF rows = <<>> THEN [raised |-> "", null_entries |-> <<>>]
    ELSE LET row == Head(rows)
             rest == check_for_null_values(Tail(rows))
         IN  IF \E c \in DOMAIN row : row[c] = None
             THEN IF Len(row) < 3 THEN [raised |-> "IndexError"]
                  ELSE IF rest.raised # "" THEN rest
                  ELSE [raised |-> "",
                        null_entries |-> <<<<row[1], row[2], row[3], "NULL or NaN">>>>
                                           \o rest.null_entries]
             ELSE rest

\* check_state_coverage: its list has 'United States' as 51st name; the
\* result is list(set), in no fixed order
check_state_coverage(rows) ==
    (Range(VALID_STATES) \cup {"United States"})
       \ {rows[i][2][1] : i \in {j \in DOMAIN rows : rows[j][2] # None}}

\* The rows a table may hold when verify_coverage.main fetches it
FetchedWithYear ==
    {<<>>, <<<<Some(1), Some("Alabama"), Some(2000)>>>>,
     <<<<Some(1), None, Some(2000)>>>>, <<<<Some(1), Some("Alabama"), None>>>>}
FetchedStateOnly ==
    {<<>>, <<<<Some(1), Some("Alabama")>>>>, <<<<Some(1), None>>>>}

\* data_tables_state_year and data_tables_state of verify_coverage.main, in
\* the order of the two loops
TableNamesWithYear ==
    <<"Population Data", "Ethnic Data", "GDP Data", "Unemployment Data">>
TableNamesStateOnly == <<"Education Data", "Election Data", "Urban Data">>

Fetches ==
    {[t \in Range(TableNamesWithYear) \cup Range(TableNamesStateOnly) |->
         IF t = "Education Data" THEN c[1]
         ELSE IF t = "Urban Data" THEN c[2]
         ELSE IF t = "Election Data" THEN c[3]
         ELSE IF t = "Population Data" THEN c[4]
         ELSE IF t = "GDP Data" THEN c[5]
         ELSE <<<<Some(1), Some("Alabama"), Some(2000)>>>>] :
       c \in FetchedStateOnly \X FetchedStateOnly \X FetchedWithYear
              \X FetchedWithYear \X FetchedWithYear}

\* The lines one pass of the first loop prints for a table: the header, the
\* null entries (ID, Name, Year), the coverage lines and the missing states
\* - or, when a check raises, the header only
LinesWithYear(name, rows) ==
    LET nulls == check_for_null_values(rows)
        cover == check_state_year_coverage(rows)
        header == <<[line |-> "Check", table |-> name]>>
    IN  IF nulls.raised # "" \/ cover.raised # ""
        THEN [raised |-> TRUE, lines |-> header]
        ELSE [raised |-> FALSE,
              lines |-> header
                 \o [i \in DOMAIN nulls.null_entries |->
                       [line |-> "Null Value Entry", table |-> name,
                        ID |-> nulls.null_entries[i][1],
                        Name |-> nulls.null_entries[i][2]]]
                 \o [i \in DOMAIN cover.coverage_info |->
                       [line |-> "Coverage", table |-> name,
                        info |-> cover.coverage_info[i]]]
                 \o <<[line |-> "Missing States", table |-> name,
                       states |-> Range(cover.missing_states)]>>]

\* The same for a pass of the second loop
LinesStateOnly(name, rows) ==
    LET nulls == check_for_null_values(rows)
        header == <<[line |-> "Check", table |-> name]>>
    IN  IF nulls.raised # ""
        THEN [raised |-> TRUE, lines |-> header]
        ELSE [raised |-> FALSE,
              lines |-> header
                 \o [i \in DOMAIN nulls.null_entries |->
                       [line |-> "Null Value Entry", table |-> name,
                        ID |-> nulls.null_entries[i][1],
                        Name |-> nulls.null_entries[i][2]]]
                 \o <<[line |-> "Missing States", table |-> name,
                       states |-> check_state_coverage(rows)]>>]

\* The two loops of verify_coverage.main inside its try: what is printed.
\* An exception ends the loops; `except Exception as e` prints it.
RECURSIVE verify_coverage_loops(_, _, _)
verify_coverage_loops(fetched, with_year, state_only) ==
    IF with_year # <<>>
    THEN LET pass == LinesWithYear(Head(with_year), fetched[Head(with_year)])
         IN  IF pass.raised
             THEN pass.lines \o <<[line |-> "An error occurred"]>>
             ELSE pass.lines
                    \o verify_coverage_loops(fetched, Tail(with_year), state_only)
    ELSE IF state_only # <<>>
    THEN LET pass == LinesStateOnly(Head(state_only), fetched[Head(state_only)])
         IN  IF pass.raised
             THEN pass.lines \o <<[line |-> "An error occurred"]>>
             ELSE pass.lines
                    \o verify_coverage_loops(fetched, with_year, Tail(state_only))
    ELSE <<>>

InitV ==
    /\ IdleD
    /\ IdleG
    /\ IdleL
    /\ IdleP
    /\ \/ \E rows \in StateYearRows :
             call = Some([fn |-> "check_state_year_coverage", rows |-> rows])
       \/ \E rows \in ElectionRows :
             call = Some([fn |-> "validate_election_data", rows |-> rows,
                          tolerance |-> tolerance])
       \/ \E fetched \in Fetches :
             call = Some([fn |-> "verify_coverage.main", fetched |-> fetched])
    /\ returned = None
    /\ main_outcome = None

ApplyCheckStateYearCoverage ==
    /\ call # None /\ call[1].fn = "check_state_year_coverage"
    /\ returned = None
    /\ returned' = Some(check_state_year_coverage(call[1].rows))
    /\ UNCHANGED <<call, main_outcome, gvars, lvars, pvars, dvars>>

ApplyValidateElectionData ==
    /\ call # None /\ call[1].fn = "validate_election_data"
    /\ returned = None
    /\ returned' = Some(validate_election_data(call[1].rows, call[1].tolerance))
    /\ UNCHANGED <<call, main_outcome, gvars, lvars, pvars, dvars>>

ApplyVerifyCoverageMain ==
    /\ call # None /\ call[1].fn = "verify_coverage.main"
    /\ returned = None
    /\ returned' = Some(verify_coverage_loops(call[1].fetched, TableNamesWithYear,
                                              TableNamesStateOnly))
    /\ UNCHANGED <<call, main_outcome, gvars, lvars, pvars, dvars>>

NextV ==
    \/ ApplyCheckStateYearCoverage
    \/ ApplyValidateElectionData
    \/ ApplyVerifyCoverageMain

SpecV == InitV /\ [][NextV]_vars

-----------------------------------------------------------------------------
(* Properties of the greedy selectors *)

\* Columns the candidate at position i of remaining_features is scored on
CandidateColumns(i) ==
    Columns(features, Append(selected_features, remaining_features[i]))

AllCandidatesScored ==
    \A i \in 1..Len(remaining_features) : CandidateColumns(i) \in DOMAIN round_scores

\* C1: in each of the three selectors the running best score never
\* decreases: the best score once k+1 features are appended is >= the best
\* score once k features are appended, and the current best_r2 is >= the
\* best score at the last append.
C1_BestNeverDecreases ==
    /\ \A k \in 1..(Len(best_after) - 1) : best_after[k+1] >= best_after[k]
    /\ best_r2 >= best_after[Len(best_after)]

C1_Witness ==
    /\ gpc = "done"
    /\ Len(selected_features) >= 2
    /\ best_after[3] > best_after[2]

\* C2: every run of a selector terminates, and its while loop begins at most
\* |F| iterations.
C2_TerminatesWithinF ==
    /\ <>(gpc = "done")
    /\ [](outer_iters <= Len(features))

C2_Witness ==
    /\ gpc = "done"
    /\ Len(features) >= 2
    /\ outer_iters = Len(features)

\* C3: when a round's for loop ends, every remaining feature has been scored
\* on selected_features + [feature]; a feature is appended only if its score
\* is the highest of the round and strictly greater than the best score
\* before the round; when the highest score of the round is not strictly
\* greater, nothing is appended; and when nothing is appended the search
\* stops.
C3_RoundChoosesBest ==
    [][(gpc = "for" /\ fi > Len(remaining_features)) =>
        /\ AllCandidatesScored
        /\ LET scores == [i \in 1..Len(remaining_features) |->
                             round_scores[CandidateColumns(i)].r2]
           IN  /\ selected_features' # selected_features =>
                    \E i \in 1..Len(remaining_features) :
                       /\ selected_features' =
                             Append(selected_features, remaining_features[i])
                       /\ scores[i] = SeqMax(scores)
                       /\ scores[i] > r2_before_round
                       /\ gpc' = "while"
               /\ ~(SeqMax(scores) > r2_before_round) =>
                    selected_features' = selected_features
               /\ selected_features' = selected_features => gpc' = "return"
      ]_vars

C3_Witness ==
    /\ gpc = "return"
    /\ Len(selected_features) = 1
    /\ Len(remaining_features) = 2
    /\ fi = 3
    /\ best_r2 = r2_before_round

\* C4: when a selector has returned, either every feature of F is selected
\* or no remaining feature scores above best_r2 on selected_features + [f].
C4_LocalOptimum ==
    gpc = "done" =>
       \/ remaining_features = <<>>
       \/ /\ AllCandidatesScored
          /\ \A i \in 1..Len(remaining_features) :
                round_scores[CandidateColumns(i)].r2 <= best_r2

C4_Witness ==
    /\ gpc = "done"
    /\ selected_features # <<>>
    /\ remaining_features # <<>>
    /\ \E i \in 1..Len(remaining_features) :
          round_scores[CandidateColumns(i)].r2 = best_r2

-----------------------------------------------------------------------------
(* Properties of the loader *)

\* The step ends an iteration of the for loop with the given outcome
IterationEnds(outcomes) ==
    /\ Len(log') = Len(log) + 1
    /\ log'[Len(log')].outcome \in outcomes

\* The rows the step appends to combined_df
Added == SubSeq(combined_df', Len(combined_df) + 1, Len(combined_df'))
AddedFor(st) == {i \in DOMAIN Added : Added[i].state = st /\ Added[i].year = year}
OnlyAppends == SubSeq(combined_df', 1, Len(combined_df)) = combined_df

NoNaN(r) == \A c \in DOMAIN r \ {"state", "year"} : ~IsNaN(r[c])
HasRow(df, st) == \E r \in df[1] : r.state = st /\ r.year = year
HasFullRow(df, st) == \E r \in df[1] : r.state = st /\ r.year = year /\ NoNaN(r)

\* The state lacks a row for the year in at least one of the six extracts
Lacking(st) ==
    \/ ~HasRow(election_df, st)     \/ ~HasRow(population_df, st)
    \/ ~HasRow(gdp_df, st)          \/ ~HasRow(unemployment_df, st)
    \/ ~HasRow(education_df, st)    \/ ~HasRow(urbanization_df, st)

\* All six extracts hold a row for (state, year) with non-null values
Complete(st) ==
    /\ HasFullRow(election_df, st)  /\ HasFullRow(population_df, st)
    /\ HasFullRow(gdp_df, st)       /\ HasFullRow(unemployment_df, st)
    /\ HasFullRow(education_df, st) /\ HasFullRow(urbanization_df, st)

\* total_gpd and total_population of the state's rows are both zero, so that
\* gdp_per_capita is 0/0
ZeroOverZero(st) ==
    \E g \in gdp_df[1], p \in population_df[1] :
        /\ g.state = st /\ p.state = st /\ g.year = year /\ p.year = year
        /\ IsFinite(g.total_gpd) /\ g.total_gpd.n = 0
        /\ IsFinite(p.total_population) /\ p.total_population.n = 0

\* C5 as stated: an iteration that raises nothing emits an Observation for
\* (state, year) if and only if all six extracts hold a row for it with
\* non-null values.
C5_EmitsIffComplete ==
    [][(lpc = "merge" /\ IterationEnds({"merged", "skipped"})) =>
          /\ OnlyAppends
          /\ \A st \in States : AddedFor(st) # {} <=> Complete(st)
      ]_vars

\* C5 amended: an iteration that raises nothing emits an Observation for
\* (state, year) if and only if all six extracts hold a row for it with
\* non-null values and total_gpd and total_population are not both zero;
\* the other states of the year are kept.
C5_EmitsIffCompleteAndDefined ==
    [][(lpc = "merge" /\ IterationEnds({"merged", "skipped"})) =>
          /\ OnlyAppends
          /\ \A st \in States :
                AddedFor(st) # {} <=> (Complete(st) /\ ~ZeroOverZero(st))
          /\ \A i \in DOMAIN Added : Added[i].year = year
      ]_vars

C5_Witness ==
    /\ lpc = "done"
    /\ Len(log) = 1 /\ log[1].outcome = "merged"
    /\ Len(combined_df) = 1
    /\ defects = 1

\* C6: an exception in the iteration of year Y is caught for that year
\* only: nothing is added, the accumulated rows stay, the loop goes on with
\* the next year (no retry), and get_combined_data returns the frame after
\* one iteration per year of the list.
C6_ErrorSkipsYearOnly ==
    [][/\ IterationEnds({"error"}) =>
             /\ combined_df' = combined_df
             /\ yi' = yi + 1
             /\ lpc' = IF yi < Len(years) THEN "election" ELSE "return"
       /\ lpc' = "done" =>
             /\ loaded' = Some(combined_df')
             /\ Len(log') = Len(years)
             /\ \A i \in DOMAIN years : log'[i].year = years[i]
      ]_vars

C6_Witness ==
    /\ lpc = "done"
    /\ Len(log) = 2
    /\ log[1].outcome = "error" /\ log[2].outcome = "merged"
    /\ combined_df # <<>>
    /\ loaded = Some(combined_df)

\* C7: when every iteration for year Y met an empty extract or a failing
\* query, the combined frame holds no row of year Y, and the exception does
\* not leave get_combined_data.
C7_MissingSourceDropsYear ==
    /\ lpc # "raised"
    /\ \A Y \in YearPool :
          (\A i \in DOMAIN log : log[i].year = Y =>
                log[i].outcome \in {"skipped", "error"})
          => \A j \in DOMAIN combined_df : combined_df[j].year # Y

C7_Witness ==
    /\ lpc = "done"
    /\ Len(log) = 2
    /\ log[1].outcome = "skipped" /\ log[1].year = 2020
    /\ log[2].outcome = "merged" /\ log[2].year = 2004
    /\ combined_df # <<>>

\* The year's join data is partial: some state lacks a row in a source while
\* another state is complete
Partial ==
    /\ \E st \in States : Lacking(st)
    /\ \E st \in States : Complete(st) /\ ~ZeroOverZero(st)

C9_Population2019For2020 ==
    population_df # None =>
       /\ \A r \in population_rows[1] :
             r.year = IF year = 2020 THEN 2019 ELSE year
       /\ \A r \in population_df[1] : r.year = year
       /\ {r.state : r \in population_df[1]} = {r.name : r \in population_rows[1]}

C9_Witness ==
    /\ lpc = "gdp"
    /\ year = 2020
    /\ \E r \in population_rows[1] : r.year = 2019
    /\ \E r \in population_df[1] : r.year = 2020

InRange0To100(x) == IsFinite(x) /\ 0 <= x.n /\ x.n <= 100 * x.d

\* C10 as stated: every Observation has 0 <= republican_percent <= 100.
C10_PercentInRange ==
    \A i \in DOMAIN combined_df : InRange0To100(combined_df[i].republican_percent)

\* C10 amended: an Observation has 0 <= republican_percent <= 100 when its
\* election row has 0 <= republican <= total; the loader does not check the
\* votes, and a row with republican > total gives a percentage above 100.
C10_PercentInRangeIfVotesAre ==
    [][(lpc = "merge" /\ IterationEnds({"merged"})) =>
          \A i \in DOMAIN Added :
             \A e \in election_rows[1] :
                (/\ e.state = Added[i].state /\ e.year = Added[i].year
                 /\ IsFinite(e.republican) /\ IsFinite(e.total)
                 /\ 0 <= e.republican.n
                 /\ e.republican.n * e.total.d <= e.total.n * e.republican.d)
                => InRange0To100(Added[i].republican_percent)
      ]_vars

C10_Witness ==
    /\ lpc = "done"
    /\ Len(combined_df) = 2
    /\ combined_df[1].republican_percent = F(5500, 100)
    /\ combined_df[2].republican_percent = F(3333, 100)

-----------------------------------------------------------------------------
(* Properties of one year of the loader (SpecM) *)

q == call[1].q
Observations == returned[1]

\* The row of a query result for a state (key is the column naming the state)
RowsOf(rows, key, st) == {r \in rows : r[key] = st}

\* The column of education_data the year selects
EducationColumn(y) ==
    IF y <= 2005 THEN "total_college_finishers_2000"
    ELSE IF y <= 2013 THEN "total_college_finishers_2008"
    ELSE "total_college_finishers_2017"

\* All six query results hold a row for the state
Shared(st) ==
    /\ RowsOf(q.election_results, "state", st) # {}
    /\ RowsOf(q.population_data, "name", st) # {}
    /\ RowsOf(q.gdp_data, "state", st) # {}
    /\ RowsOf(q.unemployment_data, "state", st) # {}
    /\ RowsOf(q.education_data, "state", st) # {}
    /\ RowsOf(q.urbanization_data, "state", st) # {}

IsZero(x) == IsFinite(x) /\ x.n = 0

\* The state's rows hold no NULL in a column the loader reads for the year,
\* and no ratio the loader derives from them is 0/0
Defined(st) ==
    /\ \A e \in RowsOf(q.election_results, "state", st) :
          /\ ~IsNaN(e.republican) /\ ~IsNaN(e.total)
          /\ ~(IsZero(e.republican) /\ IsZero(e.total))
    /\ \A p \in RowsOf(q.population_data, "name", st) :
          /\ ~IsNaN(p.total_population)
          /\ \A c \in {"population_18_24", "population_25_44",
                        "population_45_64", "population_65_plus"} :
                ~IsNaN(p[c]) /\ ~(IsZero(p[c]) /\ IsZero(p.total_population))
          /\ \A g \in RowsOf(q.gdp_data, "state", st) :
                ~(IsZero(g.total_gpd) /\ IsZero(p.total_population))
    /\ \A g \in RowsOf(q.gdp_data, "state", st) : ~IsNaN(g.total_gpd)
    /\ \A u \in RowsOf(q.unemployment_data, "state", st) :
          ~IsNaN(u.unemployment)
    /\ \A ed \in RowsOf(q.education_data, "state", st) :
          ~IsNaN(ed[EducationColumn(q.year)])
    /\ \A ur \in RowsOf(q.urbanization_data, "state", st) :
          ~IsNaN(IF q.year <= 2005 THEN ur.urban_2000 ELSE ur.urban_2010)

ObservationsOf(st) ==
    {i \in DOMAIN Observations :
        Observations[i].state = st /\ Observations[i].year = q.year}

\* C11 as stated: query results that share exactly one (state, year) pair
\* give exactly one Observation row.
C11_OneSharedPairOneRow ==
    (returned # None /\ Cardinality({st \in States : Shared(st)}) = 1)
    => Len(Observations) = 1

\* C11 amended: query results that share exactly one (state, year) pair,
\* whose rows hold no NULL in a column the loader reads and give no 0/0
\* ratio, yield exactly one Observation row, the one of that pair; its
\* republican_percent is 55.00 when the election row has republican = 55 and
\* total = 100.
C11_OneDefinedSharedPairOneRow ==
    (returned # None /\ Cardinality({st \in States : Shared(st)}) = 1)
    => \A st \in States :
          (Shared(st) /\ Defined(st)) =>
             /\ Len(Observations) = 1
             /\ ObservationsOf(st) = {1}
             /\ \A e \in RowsOf(q.election_results, "state", st) :
                   (e.republican = F(55, 1) /\ e.total = F(100, 1))
                   => Observations[1].republican_percent = F(5500, 100)

C11_Witness ==
    /\ returned # None
    /\ Cardinality({st \in States : Shared(st)}) = 1
    /\ Shared("AL") /\ Defined("AL")
    /\ Len(Observations) = 1
    /\ Observations[1].republican_percent = F(5500, 100)

\* k/scale is a multiple of 1/scale nearest to num/den (den > 0)
Nearest(x, num, den, scale) ==
    /\ IsFinite(x) /\ x.d = scale
    /\ 2 * (x.n * den - num * scale) <= den
    /\ 2 * (num * scale - x.n * den) <= den

\* x is num/den rounded to a multiple of 1/scale; num/0 is inf
RoundedRatio(x, num, den, scale) ==
    IF den = 0 THEN IsInf(x) ELSE Nearest(x, num, den, scale)

\* C12: every Observation has republican_percent = republican / total * 100
\* rounded to 2 decimal places and gdp_per_capita = total_gpd * 1000000 /
\* total_population rounded to 0 decimal places, from the election, GDP and
\* population rows of its own (state, year).
C12_DerivedColumns ==
    returned # None =>
       \A i \in DOMAIN Observations :
          LET o == Observations[i]
          IN  /\ o.year = q.year
              /\ \E e \in RowsOf(q.election_results, "state", o.state) :
                    /\ e.year = o.year
                    /\ RoundedRatio(o.republican_percent,
                                    e.republican.n * e.total.d * 100,
                                    e.republican.d * e.total.n, 100)
              /\ \E g \in RowsOf(q.gdp_data, "state", o.state),
                    p \in RowsOf(q.population_data, "name", o.state) :
                    /\ g.year = o.year
                    /\ p.year = population_year(o.year)
                    /\ RoundedRatio(o.gdp_per_capita,
                                    g.total_gpd.n * 1000000 * p.total_population.d,
                                    g.total_gpd.d * p.total_population.n, 1)

C12_Witness ==
    /\ returned # None
    /\ \E i \in DOMAIN Observations :
          /\ Observations[i].state = "AK"
          /\ Observations[i].republican_percent = F(3333, 100)
          /\ Observations[i].gdp_per_capita = F(666667, 1)

\* C13: college_finishers of every Observation is the column of the
\* requested year (2000 up to 2005, 2008 up to 2013, 2017 after) times 100,
\* rounded to 1 decimal place; the other two columns are not used: a NULL
\* in one of them does not remove the Observation.
C13_CollegeFinishersByYear ==
    returned # None =>
       /\ \A i \in DOMAIN Observations :
             \E ed \in RowsOf(q.education_data, "state", Observations[i].state) :
                LET v == IF q.year <= 2005 THEN ed.total_college_finishers_2000
                         ELSE IF q.year <= 2013 THEN ed.total_college_finishers_2008
                         ELSE ed.total_college_finishers_2017
                IN  Nearest(Observations[i].college_finishers, v.n * 100, v.d, 10)
       /\ \A st \in States :
             (Shared(st) /\ Defined(st)) => ObservationsOf(st) # {}

C13_Witness ==
    /\ returned # None
    /\ q.year = 2013
    /\ \E ed \in q.education_data :
          ed.state = "AK" /\ IsNaN(ed.total_college_finishers_2017)
    /\ \E i \in DOMAIN Observations :
          /\ Observations[i].state = "AK"
          /\ Observations[i].college_finishers = F(250, 10)
    /\ \E i \in DOMAIN Observations :
          /\ Observations[i].state = "AL"
          /\ Observations[i].college_finishers = F(250, 10)

ObservationFields ==
    {"state", "year", "republican_percent", "gdp_per_capita",
     "unemployment_rate", "college_finishers", "urban_population",
     "age_18_24_percent", "age_25_44_percent", "age_45_64_percent",
     "age_65_plus_percent"}

\* C14 as stated: every Observation carries republican_percent,
\* total_population, the four age-bracket percentages, gdp_per_capita,
\* unemployment_rate, college_finishers and urban_population, with its state
\* and year.
C14_FieldsWithTotalPopulation ==
    returned # None =>
       \A i \in DOMAIN Observations :
          DOMAIN Observations[i] = ObservationFields \cup {"total_population"}

\* C14 amended: every Observation carries state, year, republican_percent,
\* the four age-bracket percentages, gdp_per_capita, unemployment_rate,
\* college_finishers and urban_population, and no other field:
\* total_population is not among them.
C14_FieldsWithoutTotalPopulation ==
    returned # None =>
       \A i \in DOMAIN Observations :
          DOMAIN Observations[i] = ObservationFields

C14_Witness ==
    /\ returned # None
    /\ Len(Observations) = 2
    /\ "total_population" \notin DOMAIN Observations[1]
    /\ \E p \in q.population_data : p.name = Observations[1].state

-----------------------------------------------------------------------------
(* Properties of the selectors, continued *)

\* A feature list as main passes it: not empty, no empty name, no duplicate
MainLike(feats) ==
    /\ feats # <<>>
    /\ \A i \in DOMAIN feats : feats[i] # ""
    /\ \A i, j \in DOMAIN feats : feats[i] = feats[j] => i = j

\* C15: a selector that stops because no candidate improves the score
\* returns the subset it has accumulated, and when that subset is empty
\* main does not fail on it.
C15_EmptySelectionIsNoError ==
    /\ gpc = "done" => (result # None /\ result[1][1] = selected_features)
    /\ (main_outcome # None /\ MainLike(features) /\ selected_features = <<>>)
          => main_outcome = Some("ok")

\* The score of the candidate at position i of remaining_features, this round
RoundScore(i) == round_scores[CandidateColumns(i)].r2

\* C16: at the end of a round's for loop the pick, if any, is the first
\* candidate, in the order of remaining_features, that attains the round's
\* highest score: no earlier candidate scores as much and no candidate
\* scores more.
C16_TiesKeepFirst ==
    (gpc = "for" /\ fi > Len(remaining_features) /\ best_new_feature # None)
    => \E i \in 1..Len(remaining_features) :
          /\ best_new_feature = Some(remaining_features[i])
          /\ best_r2 = RoundScore(i)
          /\ \A j \in 1..Len(remaining_features) : ~Gt(RoundScore(j), RoundScore(i))
          /\ \A j \in 1..(i-1) : RoundScore(j) # RoundScore(i)

C16_Witness ==
    /\ gpc = "for" /\ fi > Len(remaining_features)
    /\ Len(remaining_features) = 2
    /\ MainLike(features)
    /\ RoundScore(1) = RoundScore(2) /\ RoundScore(1) # NaNScore
    /\ best_new_feature = Some(remaining_features[1])

\* C17: no step removes or reorders a selected feature (selected_features
\* is a prefix of its next value), and a run scores at most
\* |F|(|F|+1)/2 candidate subsets.
C17_NoBacktrackQuadraticFits ==
    [][/\ Len(selected_features') >= Len(selected_features)
       /\ SubSeq(selected_features', 1, Len(selected_features)) = selected_features
       /\ 2 * fits' <= Len(features) * (Len(features) + 1)
      ]_vars

C17_Witness ==
    /\ gpc = "done"
    /\ Len(features) = 3
    /\ Len(selected_features) = 2
    /\ fits = 6

-----------------------------------------------------------------------------
(* Properties of evaluate_metrics (SpecE) *)

\* Sum of the squared differences of two vectors
SquaredError(a, b) == SumSeq([i \in DOMAIN a |-> (a[i] - b[i]) * (a[i] - b[i])])

\* n times the total sum of squares of y around its mean
TotalSquares(y) ==
    Len(y) * SumSeq([i \in DOMAIN y |-> y[i] * y[i]]) - SumSeq(y) * SumSeq(y)

\* r2 is the coefficient of determination of the predictions p for y:
\* (1 - r2) * SS_tot = SS_res, where it is defined (two samples or more,
\* y not constant)
IsR2Of(r2, y, p) ==
    (Len(y) >= 2 /\ TotalSquares(y) # 0) =>
       /\ IsFinite(r2)
       /\ (r2.d - r2.n) * TotalSquares(y) = Len(y) * SquaredError(y, p) * r2.d

\* C18: evaluate_metrics returns the metrics R2_train, R2_test and MSE_test
\* and no other, with the test predictions: R2_train from the model's
\* predictions on X_train against y_train, R2_test and MSE_test from its
\* predictions on X_test against y_test; and it leaves its arguments as
\* they were.
C18_MetricsAndFrame ==
    [][(call # None /\ call[1].fn = "evaluate_metrics" /\ returned' # returned) =>
          LET a == call[1]
              out == returned'[1]
              p_train == [i \in DOMAIN a.X_train |-> a.model[a.X_train[i]]]
              p_test  == [i \in DOMAIN a.X_test |-> a.model[a.X_test[i]]]
          IN  /\ call' = call
              /\ DOMAIN out = {"metrics", "y_pred_test"}
              /\ DOMAIN out.metrics = {"R2_train", "R2_test", "MSE_test"}
              /\ out.y_pred_test = p_test
              /\ IsR2Of(out.metrics.R2_train, a.y_train, p_train)
              /\ IsR2Of(out.metrics.R2_test, a.y_test, p_test)
              /\ IsFinite(out.metrics.MSE_test)
              /\ out.metrics.MSE_test.n * Len(a.y_test)
                    = SquaredError(a.y_test, p_test) * out.metrics.MSE_test.d
      ]_vars

C18_Witness ==
    /\ call # None /\ call[1].fn = "evaluate_metrics"
    /\ returned # None
    /\ Len(call[1].y_train) = 2 /\ Len(call[1].y_test) = 2
    /\ returned[1].metrics.R2_train = F(1, 1)
    /\ returned[1].metrics.R2_test = F(0 - 3, 1)
    /\ returned[1].metrics.MSE_test = F(2, 2)

-----------------------------------------------------------------------------
(* Properties of the cross-validated fits (SpecCV) *)

KnnReturned ==
    call # None /\ call[1].fn = "perform_knn_cv" /\ returned # None

LinearReturned ==
    call # None /\ call[1].fn = "perform_linear_regression_cv" /\ returned # None

\* C19: perform_knn_cv returns a best_k of k_range whose mean cross-validated
\* R2 no other k of k_range exceeds (and which is a number when any k's is),
\* returns that mean as the score, and returns an estimator whose
\* n_neighbors is best_k.
C19_BestKMaximizes ==
    KnnReturned =>
       LET g == call[1].mean_test_score
           ks == call[1].k_range
           out == returned[1]
       IN  /\ \E i \in 1..Len(ks) :
                 /\ out.param = ks[i]
                 /\ out.r2 = g[i]
                 /\ \A j \in 1..Len(ks) : ~Gt(g[j], g[i])
                 /\ (\E j \in 1..Len(ks) : g[j] # NaNScore) => g[i] # NaNScore
           /\ out.model.kind = "knn"
           /\ out.model.param = out.param

C19_Witness ==
    /\ KnnReturned
    /\ call[1].mean_test_score = <<1, 2>>
    /\ returned[1].param = 8
    /\ returned[1].r2 = 2
    /\ returned[1].model.param = 8

\* C20: perform_linear_regression_cv returns as score the mean of the five
\* scores of the folds (five times the score is their sum), and the model
\* it returns is the one fitted on X_train, on all its columns.
C20_MeanOfFoldsFullFit ==
    LinearReturned =>
       LET scores == call[1].scores
           out == returned[1]
       IN  /\ Len(scores) = 5
           /\ IF \A i \in 1..5 : IsFinite(scores[i])
              THEN /\ IsFinite(out.r2)
                   /\ 5 * out.r2.n
                        = out.r2.d * (scores[1].n + scores[2].n + scores[3].n
                                       + scores[4].n + scores[5].n)
              ELSE ~IsFinite(out.r2)
           /\ out.model.kind = "linear"
           /\ out.model.fitted_on = "X_train"
           /\ out.model.cols = call[1].X_train

C20_Witness ==
    /\ LinearReturned
    /\ call[1].scores = <<F(1, 1), F(2, 1), F(2, 1), F(2, 1), F(2, 1)>>
    /\ returned[1].r2 = F(9, 5)
    /\ returned[1].model.fitted_on = "X_train"

-----------------------------------------------------------------------------
(* Properties of the greedy selectors, continued (SpecG) *)

\* C21: when a selector returns a non-empty selection, the returned
\* best_model is the one fitted on the columns of the returned
\* selected_features, in selection order, and best_r2 is the score that
\* subset had when its last feature was selected; whatever the names in
\* features are.
C21_ReturnedModelIsOfSelection ==
    (gpc = "done" /\ selected_features # <<>>) =>
       /\ best_model # None
       /\ best_model[1].cols = Columns(features, selected_features)
       /\ best_r2 = best_after[Len(best_after)]
       /\ result[1][1] = selected_features
       /\ result[1][Len(result[1]) - (IF family = "poly" THEN 2 ELSE 0)] = best_model

\* C22: when grid_search_feature_selection_poly returns a selection, the
\* returned best_degree is one of degrees and is the degree the grid search
\* chose for the columns of the returned selected_features (the degree of
\* the model fitted on them, with the returned best_r2 as its score), and
\* the returned best_poly_features is the expansion step of the returned
\* best_model: same degree, as many input columns as selected_features.
C22_DegreeAndExpansionOfSelection ==
    (gpc = "done" /\ family = "poly" /\ selected_features # <<>>) =>
       /\ best_degree # None /\ best_model # None /\ best_poly_features # None
       /\ \E i \in 1..Len(degrees) : best_degree[1] = degrees[i]
       /\ best_model[1].cols = Columns(features, selected_features)
       /\ best_model[1].param = best_degree[1]
       /\ best_r2 = best_after[Len(best_after)]
       /\ best_poly_features[1].degree = best_model[1].param
       /\ best_poly_features[1].n_features_in = Len(selected_features)
       /\ result[1] = <<selected_features, best_r2, best_model,
                        best_poly_features, best_degree>>

-----------------------------------------------------------------------------
(* Properties of the selectors run one after another (SpecSeq) *)

\* C23: no step of a selector changes the caller's features list, and every
\* selector main calls starts its search from that full list.
C23_CallerFeaturesUnchanged ==
    [][/\ features' = features
       /\ (gpc' = "while" /\ outer_iters' = 0) =>
             (remaining_features' = features /\ selected_features' = <<>>)
      ]_vars

\* The poly selector, called after the knn and the linear selector returned,
\* has selected a feature
C23_Witness ==
    /\ family = "poly"
    /\ Len(features) = 2
    /\ Len(selected_features) = 1
    /\ Len(remaining_features) = 1
    /\ gpc = "while"

-----------------------------------------------------------------------------
(* Properties of the greedy selectors, continued (SpecG) *)

Distinct(list) == \A i, j \in DOMAIN list : list[i] = list[j] => i = j

\* C24: for a list features of distinct names, at every point of a
\* selector's run selected_features and remaining_features have no name in
\* common, hold together exactly the names of features, and
\* selected_features holds no name twice.
C24_SelectedAndRemainingPartition ==
    (family # "none" /\ Distinct(features)) =>
       /\ Range(selected_features) \cap Range(remaining_features) = {}
       /\ Range(selected_features) \cup Range(remaining_features) = Range(features)
       /\ Distinct(selected_features)
       /\ Len(selected_features) + Len(remaining_features) = Len(features)

C24_Witness ==
    /\ Distinct(features)
    /\ Len(features) = 3
    /\ Len(selected_features) = 2
    /\ Len(remaining_features) = 1
    /\ gpc = "done"

-----------------------------------------------------------------------------
(* Properties of main's pipeline (SpecP) *)

RowsIn(cells) == {cells[i].row : i \in DOMAIN cells}

\* The split of X, y: no Observation on both sides, every Observation on one
\* side, once, and at each place of a partition the feature cell and the
\* response cell of one and the same Observation, as they are in X and y
SplitIsPartition ==
    LET X_tr == main_X_train[1]
        X_te == main_X_test[1]
        y_tr == main_y_train[1]
        y_te == main_y_test[1]
    IN  /\ RowsIn(X_tr) \cap RowsIn(X_te) = {}
        /\ RowsIn(X_tr) \cup RowsIn(X_te) = DOMAIN main_df[1]
        /\ Len(X_tr) + Len(X_te) = Len(main_df[1])
        /\ Len(y_tr) = Len(X_tr) /\ Len(y_te) = Len(X_te)
        /\ \A i \in DOMAIN X_tr :
              /\ X_tr[i] = main_X[1][X_tr[i].row]
              /\ y_tr[i] = main_y[1][X_tr[i].row]
        /\ \A i \in DOMAIN X_te :
              /\ X_te[i] = main_X[1][X_te[i].row]
              /\ y_te[i] = main_y[1][X_te[i].row]

\* C25: main loads, then normalizes, then splits, then searches, then
\* evaluates; the train and the test partition are disjoint, cover every
\* Observation together and keep each feature row with its own response;
\* each of the three searches is given the training partition only, and the
\* test partition goes to an evaluation only, the one that follows the
\* search of its family.
C25_PipelineOrderAndSplit ==
    /\ main_X # None => (main_df # None /\ main_y # None)
    /\ main_X_train # None => (main_X # None /\ SplitIsPartition)
    /\ received # <<>> => main_X_train # None
    /\ \A k \in DOMAIN received :
          LET e == received[k]
          IN  /\ e.X_train = main_X_train /\ e.y_train = main_y_train
              /\ e.family = Searches[(k + 1) \div 2]
              /\ IF k % 2 = 1
                 THEN e.component = "search" /\ e.X_test = None /\ e.y_test = None
                 ELSE /\ e.component = "evaluate"
                      /\ e.X_test = main_X_test /\ e.y_test = main_y_test

C25_Witness ==
    /\ mpc = "done"
    /\ Len(received) = 6
    /\ Len(main_df[1]) = 3
    /\ Len(main_X_train[1]) = 2
    /\ main_X_train[1][1].row = 3 /\ main_y_train[1][1].row = 3
    /\ main_X_test[1][1].row = 2

-----------------------------------------------------------------------------
(* Properties of one year of the loader, continued (SpecM) *)

\* C26: whatever the requested year, every Observation has the
\* urban_population of its state's row of urbanization_data (a table
\* without year): urban_2000 for a year up to 2005, urban_2010 after, times
\* 100, rounded to 1 decimal place; the column the year does not select is
\* not used.
C26_UrbanPopulationByYear ==
    returned # None =>
       /\ \A i \in DOMAIN Observations :
             \E ur \in RowsOf(q.urbanization_data, "state", Observations[i].state) :
                LET v == IF q.year <= 2005 THEN ur.urban_2000 ELSE ur.urban_2010
                IN  /\ Nearest(Observations[i].urban_population, v.n * 100, v.d, 10)
                    /\ Observations[i].year = q.year
       /\ \A ur \in q.urbanization_data :
             (Shared(ur.state) /\ Defined(ur.state)) => ObservationsOf(ur.state) # {}

C26_Witness ==
    /\ returned # None
    /\ q.year = 2005
    /\ \E ur \in q.urbanization_data :
          /\ ur.state = "AK"
          /\ ur.urban_2000 = F(5555, 10000) /\ ur.urban_2010 = F(6004, 10000)
    /\ \E i \in DOMAIN Observations :
          /\ Observations[i].state = "AK"
          /\ Observations[i].urban_population = F(556, 10)

-----------------------------------------------------------------------------
(* Properties of an import script (SpecI) *)

\* The table that holds exactly the rows of data, numbered as inserted
TableOf(rows) == Some([i \in DOMAIN rows |-> [id |-> i, v |-> rows[i]]])

\* C27: the committed target table is at every moment of a run either what
\* it was when the run began or the table of the input rows, never absent
\* or partly filled in between; a run in which the connect, the drop, the
\* create, an insert or the commit fails prints the error, returns, and
\* leaves the table as it was; a run that commits leaves exactly the rows
\* of data, so a second run on the same data leaves the same table.
C27_ImportAllOrNothing ==
    ipc # "idle" =>
       /\ db = db_at_start \/ db = TableOf(data)
       /\ (failed # None /\ failed[1] # "verify") =>
             /\ db = db_at_start
             /\ ipc = "done"
             /\ stdout # <<>> /\ stdout[Len(stdout)] = "Error"
       /\ ipc = "verify" => db = TableOf(data)
       /\ (ipc = "done" /\ (failed = None \/ failed = Some("verify"))) =>
             db = TableOf(data)
       /\ (ipc = "done" /\ failed = None) => stdout = db[1]
       /\ (runs = 2 /\ db_at_start = TableOf(data)) => db = db_at_start

\* A first run replaced another table by the two rows of data, and a second
\* run failed at its second insert
C27_Witness ==
    /\ runs = 2
    /\ ipc = "done"
    /\ failed = Some("insert")
    /\ ii = 2
    /\ data = <<"b", "a">>
    /\ db = Some(<<[id |-> 1, v |-> "b"], [id |-> 2, v |-> "a"]>>)

-----------------------------------------------------------------------------
(* Properties of the verification scripts (SpecV) *)

CoverageReturned ==
    call # None /\ call[1].fn = "check_state_year_coverage" /\ returned # None

\* The years of the rows that name the state
YearsNamed(rows, state) ==
    {rows[i][3] : i \in {j \in DOMAIN rows : rows[j][2] = Some(state)}}

\* C28: check_state_year_coverage returns its two results, and every valid
\* state is in exactly one of them: in missing_states if and only if no row
\* names it, otherwise once in coverage_info, with the least and the
\* greatest year of its rows and, as missing, exactly the years between
\* them that no row of the state has; rows naming other states change
\* nothing.
C28_EveryStateInOneResult ==
    CoverageReturned =>
       LET rows == call[1].rows
           out == returned[1]
       IN  /\ out.raised = ""
           /\ \A k \in DOMAIN VALID_STATES :
                 LET state == VALID_STATES[k]
                     named == YearsNamed(rows, state)
                     infos == {i \in DOMAIN out.coverage_info :
                                  out.coverage_info[i].state = state}
                     missing == {i \in DOMAIN out.missing_states :
                                    out.missing_states[i] = state}
                 IN  IF named = {}
                     THEN Cardinality(missing) = 1 /\ infos = {}
                     ELSE /\ missing = {} /\ Cardinality(infos) = 1
                          /\ \A i \in infos :
                                LET e == out.coverage_info[i]
                                IN  /\ Some(e.min_year) \in named
                                    /\ Some(e.max_year) \in named
                                    /\ \A c \in named :
                                          c # None /\ e.min_year <= c[1] /\ c[1] <= e.max_year
                                    /\ e.missing_years =
                                          {yr \in (e.min_year + 1)..(e.max_year - 1) :
                                              Some(yr) \notin named}
           /\ Len(out.coverage_info) + Len(out.missing_states) = Len(VALID_STATES)

ElectionValidated ==
    call # None /\ call[1].fn = "validate_election_data" /\ returned # None

\* The votes of the row differ from its total by more than tolerance times
\* the greater of the two
Offending(row) ==
    LET votes == row[4] + row[5] + row[6]
        greater == IF votes > row[7] THEN votes ELSE row[7]
        gap == IF votes > row[7] THEN votes - row[7] ELSE row[7] - votes
    IN  gap * 10000 > greater

\* C29: validate_election_data returns one critical entry for each row whose
\* votes differ from the total by more than the tolerance and none for any
\* other row, and the entry of a row carries that row's id, state and year.
C29_CriticalEntriesNameTheirRow ==
    ElectionValidated =>
       LET rows == call[1].rows
           critical_entries == returned[1]
           offending == {i \in DOMAIN rows : Offending(rows[i])}
       IN  /\ Len(critical_entries) = Cardinality(offending)
           /\ \A i \in offending :
                 \E k \in DOMAIN critical_entries :
                    /\ critical_entries[k][1] = rows[i][1]
                    /\ critical_entries[k][2] = rows[i][2]
                    /\ critical_entries[k][3] = rows[i][3]

MainVerified ==
    call # None /\ call[1].fn = "verify_coverage.main" /\ returned # None

\* C30: verify_coverage.main starts the check of every table, those fetched
\* with the two columns (id, state) included, and prints a null entry with
\* the id and the name of every fetched row that holds a NULL.
C30_NullRowsReportedAllTablesChecked ==
    MainVerified =>
       LET fetched == call[1].fetched
           printed == returned[1]
       IN  \A t \in DOMAIN fetched :
              /\ \E k \in DOMAIN printed :
                    printed[k].line = "Check" /\ printed[k].table = t
              /\ \A i \in DOMAIN fetched[t] :
                    (\E c \in DOMAIN fetched[t][i] : fetched[t][i][c] = None) =>
                       \E k \in DOMAIN printed :
                          /\ printed[k].line = "Null Value Entry"
                          /\ printed[k].table = t
                          /\ printed[k].ID = fetched[t][i][1]
                          /\ printed[k].Name = fetched[t][i][2]

=============================================================================
